---- MODULE Spec2Model ----
(***************************************************************************)
(* A model of dd-trace-cpp's trace segment: Span handles (span.cpp),       *)
(* TraceSegment (trace_segment.cpp, concatenated into src/.../span.cpp)    *)
(* and the W3C encoder (src/unnamed/part_000).                             *)
(*                                                                         *)
(* Application threads own Span handles.  Every TraceSegment operation is  *)
(* split at its lock acquisitions and releases, and at every access it     *)
(* makes to shared state outside the lock, so that the interleavings of    *)
(* the real program are the behaviours of Spec.                            *)
(***************************************************************************)
EXTENDS Integers, Sequences, FiniteSets, TLC

(***************************************************************************)
(* Bounds of the model.                                                    *)
(***************************************************************************)
NumThreads == 2
MaxSpans == 3
MaxOps == 2

Threads == 1..NumThreads
NoThread == 0

(***************************************************************************)
(* Values.  Optional<T> is a sequence of length at most one.               *)
(***************************************************************************)
nullopt == <<>>
Some(v) == <<v>>

SamplingMechanism ==
  [DEFAULT |-> 0, AGENT_RATE |-> 1, REMOTE_AUTO_RATE |-> 2, RULE |-> 3,
   MANUAL |-> 4, APPDEC |-> 5, REMOTE_USER_RATE |-> 6, SPAN_RULE |-> 8]

decision_maker == "_dd.p.dm"
propagation_error == "_dd.propagation_error"
usr_id == "_dd.p.usr.id"
trace_id_high == "_dd.p.tid"

\* std::unordered_map<std::string, std::string>
EmptyMap == [k \in {} |-> ""]
MapSet(m, k, v) == [x \in (DOMAIN m) \cup {k} |-> IF x = k THEN v ELSE m[x]]
MapErase(m, k) == [x \in (DOMAIN m) \ {k} |-> m[x]]
MapInsertAll(m, src) ==
  [x \in (DOMAIN m) \cup (DOMAIN src) |-> IF x \in DOMAIN m THEN m[x] ELSE src[x]]

DecDigits == <<"0", "1", "2", "3", "4", "5", "6", "7", "8", "9">>
HexDigits == <<"0", "1", "2", "3", "4", "5", "6", "7", "8", "9",
               "a", "b", "c", "d", "e", "f">>

RECURSIVE to_string_nat(_)
to_string_nat(n) ==
  IF n < 10 THEN DecDigits[n + 1]
  ELSE to_string_nat(n \div 10) \o DecDigits[(n % 10) + 1]

\* std::to_string(int)
to_string(n) == IF n < 0 THEN "-" \o to_string_nat(0 - n) ELSE to_string_nat(n)

RECURSIVE hex(_)
hex(n) ==
  IF n < 16 THEN HexDigits[n + 1]
  ELSE hex(n \div 16) \o HexDigits[(n % 16) + 1]

RECURSIVE Zeroes(_)
Zeroes(n) == IF n <= 0 THEN "" ELSE "0" \o Zeroes(n - 1)

\* An encoding that does not pad the hexadecimal ids with zeroes.
encode_traceparent_unpadded(trace_id, full_w3c_trace_id_hex, span_id, sampling_priority) ==
  "00-" \o (IF full_w3c_trace_id_hex # nullopt THEN full_w3c_trace_id_hex[1]
            ELSE hex(trace_id))
    \o "-" \o hex(span_id) \o "-" \o (IF sampling_priority > 0 THEN "01" ELSE "00")

\* encode_traceparent (w3c_propagation.cpp)
encode_traceparent(trace_id, full_w3c_trace_id_hex, span_id, sampling_priority) ==
  LET trace_part == IF full_w3c_trace_id_hex # nullopt
                    THEN full_w3c_trace_id_hex[1]
                    ELSE Zeroes(16 + (16 - Len(hex(trace_id)))) \o hex(trace_id)
      span_part == Zeroes(16 - Len(hex(span_id))) \o hex(span_id)
  IN "00-" \o trace_part \o "-" \o span_part \o "-"
       \o (IF sampling_priority > 0 THEN "01" ELSE "00")

(***************************************************************************)
(* Strings.  Header and tag values are strings; SubSeq(s, i, j) is the     *)
(* substring from character i to character j.                              *)
(***************************************************************************)
Char(s, i) == SubSeq(s, i, i)

\* std::find: the position of the first c in s, Len(s) + 1 if there is none.
Find(s, c) ==
  IF \E i \in 1..Len(s) : Char(s, i) = c
  THEN CHOOSE i \in 1..Len(s) :
         Char(s, i) = c /\ \A j \in 1..(i - 1) : Char(s, j) # c
  ELSE Len(s) + 1

\* starts_with (string_util)
starts_with(s, prefix) ==
  Len(s) >= Len(prefix) /\ SubSeq(s, 1, Len(prefix)) = prefix

\* std::replace
RECURSIVE Replace(_, _, _)
Replace(s, from, to) ==
  IF s = "" THEN ""
  ELSE (IF Head(s) = from THEN to ELSE Head(s)) \o Replace(Tail(s), from, to)

\* strip (parse_util): s without its leading and trailing whitespace.
RECURSIVE strip(_)
strip(s) ==
  IF s = "" THEN s
  ELSE IF Head(s) \in {" ", "\t", "\n", "\r", "\f"} THEN strip(Tail(s))
  ELSE IF Char(s, Len(s)) \in {" ", "\t", "\n", "\r", "\f"}
       THEN strip(SubSeq(s, 1, Len(s) - 1))
       ELSE s

\* The characters of s are digits of the base (lower case for base 16).
IsDigits(s, base) ==
  \A i \in 1..Len(s) : \E d \in 1..base : HexDigits[d] = Char(s, i)

\* parse_uint64 (parse_util): the value of a non-empty string of digits; the
\* letters among the digits are in either case.
RECURSIVE parse_uint64(_, _)
parse_uint64(s, base) ==
  LET upper == <<"0", "1", "2", "3", "4", "5", "6", "7", "8", "9",
                 "A", "B", "C", "D", "E", "F">>
      digits(c) == {d \in 0..(base - 1) : HexDigits[d + 1] = c \/ upper[d + 1] = c}
      value(last, others) ==
        IF last = {} \/ others = nullopt THEN nullopt
        ELSE Some(others[1] * base + (CHOOSE d \in last : TRUE))
  IN IF s = "" THEN nullopt
     ELSE value(digits(Char(s, Len(s))),
                IF Len(s) = 1 THEN Some(0)
                ELSE parse_uint64(SubSeq(s, 1, Len(s) - 1), base))


\* parse_int (parse_util): an optional minus sign, then digits.
parse_int(s, base) ==
  IF s # "" /\ Head(s) = "-"
  THEN LET magnitude == parse_uint64(Tail(s), base)
       IN IF magnitude = nullopt THEN nullopt ELSE Some(0 - magnitude[1])
  ELSE parse_uint64(s, base)

\* The order in which the tags of a map are serialized.
TagOrder == <<decision_maker, usr_id, trace_id_high>>

RECURSIVE JoinTags(_, _, _, _, _)
JoinTags(m, i, pairsep, kvsep, acc) ==
  IF i > Len(TagOrder) THEN acc
  ELSE IF TagOrder[i] \in DOMAIN m
       THEN JoinTags(m, i + 1, pairsep, kvsep,
                     (IF acc = "" THEN "" ELSE acc \o pairsep)
                       \o TagOrder[i] \o kvsep \o m[TagOrder[i]])
       ELSE JoinTags(m, i + 1, pairsep, kvsep, acc)

\* tag_propagation: "key=value" pairs joined by ","
encode_tags(trace_tags) == JoinTags(trace_tags, 1, ",", "=", "")

\* w3c_propagation: the "dd" entry of tracestate, then the other vendors
encode_tracestate(sampling_priority, origin, trace_tags, additional_datadog_w3c_tracestate, additional_w3c_tracestate) ==
  "dd=s:" \o to_string(sampling_priority)
    \o (IF origin # nullopt THEN ";o:" \o origin[1] ELSE "")
    \o (IF decision_maker \in DOMAIN trace_tags
        THEN ";t.dm:" \o Replace(trace_tags[decision_maker], "=", "~") ELSE "")
    \o (IF usr_id \in DOMAIN trace_tags
        THEN ";t.usr.id:" \o Replace(trace_tags[usr_id], "=", "~") ELSE "")
    \o (IF trace_id_high \in DOMAIN trace_tags
        THEN ";t.tid:" \o Replace(trace_tags[trace_id_high], "=", "~") ELSE "")
    \o (IF additional_datadog_w3c_tracestate # nullopt
        THEN ";" \o additional_datadog_w3c_tracestate[1] ELSE "")
    \o (IF additional_w3c_tracestate # nullopt
        THEN "," \o additional_w3c_tracestate[1] ELSE "")


(***************************************************************************)
(* Extraction of trace context from request headers (w3c_propagation.cpp   *)
(* and extraction_util.cpp, both in src/unnamed/part_000).                 *)
(***************************************************************************)
\* TraceID(low): a 128-bit trace id made of its lower 64 bits.
TraceID(low) == [high |-> 0, low |-> low]

\* ExtractedData{}: what an extraction returns when it found nothing.  The
\* trace tags are <<name, value>> pairs in the order of their insertion, the
\* examined headers <<name, value>> pairs in the order of their lookup.
ExtractedData ==
  [trace_id |-> nullopt, parent_id |-> nullopt, sampling_priority |-> nullopt,
   origin |-> nullopt, trace_tags |-> <<>>, full_w3c_trace_id_hex |-> nullopt,
   additional_w3c_tracestate |-> nullopt,
   additional_datadog_w3c_tracestate |-> nullopt,
   datadog_w3c_parent_id |-> nullopt, headers_examined |-> <<>>]

\* The map a container of <<name, value>> pairs is copied into: of several
\* pairs with one name the first is inserted.
TagsMap(pairs) ==
  [name \in {pairs[i][1] : i \in 1..Len(pairs)} |->
     pairs[CHOOSE i \in 1..Len(pairs) :
             pairs[i][1] = name /\ \A j \in 1..(i - 1) : pairs[j][1] # name][2]]

\* std::regex_match against the traceparent pattern: version, trace id, parent
\* id and flags in lower-case hex, then the end or a hyphen and anything that
\* "." matches.
traceparent_regex_match(s) ==
  /\ Len(s) >= 55
  /\ IsDigits(SubSeq(s, 1, 2), 16) /\ Char(s, 3) = "-"
  /\ IsDigits(SubSeq(s, 4, 35), 16) /\ Char(s, 36) = "-"
  /\ IsDigits(SubSeq(s, 37, 52), 16) /\ Char(s, 53) = "-"
  /\ IsDigits(SubSeq(s, 54, 55), 16)
  /\ Len(s) > 55 =>
       /\ Char(s, 56) = "-"
       /\ \A i \in 57..Len(s) : Char(s, i) \notin {"\n", "\r"}

\* extract_traceparent: the value for the "_dd.w3c_extraction_error" tag, if
\* any, and `result` as the function leaves it.
extract_traceparent(result, headers) ==
  IF "traceparent" \notin DOMAIN headers
  THEN [error |-> nullopt, result |-> result]
  ELSE LET traceparent == strip(headers["traceparent"])
           with_hex == [result EXCEPT !.full_w3c_trace_id_hex =
                                         Some(SubSeq(traceparent, 4, 35))]
           with_ids == [with_hex EXCEPT
                          !.trace_id =
                             Some(TraceID(parse_uint64(SubSeq(traceparent, 20, 35), 16)[1])),
                          !.parent_id = parse_uint64(SubSeq(traceparent, 37, 52), 16)]
           flags == parse_uint64(SubSeq(traceparent, 54, 55), 16)[1]
       IN IF ~traceparent_regex_match(traceparent)
          THEN [error |-> Some("malformed_traceparent"), result |-> result]
          ELSE IF SubSeq(traceparent, 1, 2) = "ff"
          THEN [error |-> Some("invalid_version"), result |-> result]
          ELSE IF Replace(with_hex.full_w3c_trace_id_hex[1], "0", "") = ""
          THEN [error |-> Some("trace_id_zero"), result |-> with_hex]
          ELSE IF with_ids.parent_id = Some(0)
          THEN [error |-> Some("parent_id_zero"), result |-> with_ids]
          ELSE [error |-> nullopt,
                result |-> [with_ids EXCEPT !.sampling_priority = Some(flags % 2)]]

\* parse_tracestate, had it gone on after the first "dd" entry and taken the
\* last one.
RECURSIVE parse_tracestate_last(_, _)
parse_tracestate_last(tracestate, pair_begin) ==
  LET end == Len(tracestate) + 1
      pair_end == pair_begin - 1
                    + Find(SubSeq(tracestate, pair_begin, Len(tracestate)), ",")
      pair == strip(SubSeq(tracestate, pair_begin, pair_end - 1))
      kv_separator == Find(pair, "=")
      next == IF pair_end = end THEN end ELSE pair_end + 1
  IN IF pair_begin = end THEN nullopt
     ELSE IF \/ pair = ""
             \/ kv_separator > Len(pair)
             \/ SubSeq(pair, 1, kv_separator - 1) # "dd"
             \/ parse_tracestate_last(tracestate, next) # nullopt
     THEN parse_tracestate_last(tracestate, next)
     ELSE Some([datadog_value |-> SubSeq(pair, kv_separator + 1, Len(pair)),
                other_entries |->
                  IF pair_begin # 1 THEN SubSeq(tracestate, 1, pair_begin - 2)
                  ELSE ""])

\* parse_tracestate, had it kept the comma before the "dd" entry.
RECURSIVE parse_tracestate_extra_comma(_, _)
parse_tracestate_extra_comma(tracestate, pair_begin) ==
  LET end == Len(tracestate) + 1
      pair_end == pair_begin - 1
                    + Find(SubSeq(tracestate, pair_begin, Len(tracestate)), ",")
      pair == strip(SubSeq(tracestate, pair_begin, pair_end - 1))
      kv_separator == Find(pair, "=")
  IN IF pair_begin = end THEN nullopt
     ELSE IF \/ pair = ""
             \/ kv_separator > Len(pair)
             \/ SubSeq(pair, 1, kv_separator - 1) # "dd"
     THEN parse_tracestate_extra_comma(tracestate,
                                       IF pair_end = end THEN end ELSE pair_end + 1)
     ELSE Some([datadog_value |-> SubSeq(pair, kv_separator + 1, Len(pair)),
                other_entries |->
                  SubSeq(tracestate, 1, pair_begin - 1)
                    \o (IF pair_end # end
                        THEN SubSeq(tracestate, pair_end + 1, Len(tracestate))
                        ELSE "")])

\* parse_tracestate, from position pair_begin on: the value of the "dd" entry
\* and the other entries, if there is a "dd" entry.
RECURSIVE parse_tracestate(_, _)
parse_tracestate(tracestate, pair_begin) ==
  LET end == Len(tracestate) + 1
      pair_end == pair_begin - 1
                    + Find(SubSeq(tracestate, pair_begin, Len(tracestate)), ",")
      pair == strip(SubSeq(tracestate, pair_begin, pair_end - 1))
      kv_separator == Find(pair, "=")
  IN IF pair_begin = end THEN nullopt
     ELSE IF \/ pair = ""
             \/ kv_separator > Len(pair)
             \/ SubSeq(pair, 1, kv_separator - 1) # "dd"
     THEN parse_tracestate(tracestate, IF pair_end = end THEN end ELSE pair_end + 1)
     ELSE Some([datadog_value |-> SubSeq(pair, kv_separator + 1, Len(pair)),
                other_entries |->
                  IF pair_begin # 1
                  THEN SubSeq(tracestate, 1, pair_begin - 2)
                         \o (IF pair_end # end
                             THEN SubSeq(tracestate, pair_end, Len(tracestate))
                             ELSE "")
                  ELSE IF pair_end # end
                       THEN SubSeq(tracestate, pair_end + 1, Len(tracestate))
                       ELSE ""])

\* parse_datadog_tracestate: the ";"-separated "key:value" pairs of the "dd"
\* entry, one after the other.
RECURSIVE parse_datadog_tracestate(_, _)
parse_datadog_tracestate(result, datadog_value) ==
  IF datadog_value = "" THEN result
  ELSE LET pair_end == Find(datadog_value, ";")
           pair == SubSeq(datadog_value, 1, pair_end - 1)
           kv_separator == Find(pair, ":")
           key == SubSeq(pair, 1, kv_separator - 1)
           value == SubSeq(pair, kv_separator + 1, Len(pair))
           priority == parse_int(value, 10)
           parsed ==
             IF pair = "" \/ kv_separator > Len(pair) THEN result
             ELSE IF key = "o" THEN [result EXCEPT !.origin = Some(value)]
             ELSE IF key = "s"
             THEN IF /\ priority # nullopt
                     /\ \/ result.sampling_priority = nullopt
                        \/ (result.sampling_priority[1] > 0) = (priority[1] > 0)
                  THEN [result EXCEPT !.sampling_priority = priority]
                  ELSE result
             ELSE IF starts_with(key, "t.")
             THEN [result EXCEPT !.trace_tags =
                     LET tag_name == "_dd.p." \o SubSeq(key, 3, Len(key))
                         decoded_value == Replace(value, "~", "=")
                     IN IF \E i \in 1..Len(@) : @[i][1] = tag_name
                        THEN [i \in 1..Len(@) |->
                                IF @[i][1] = tag_name
                                THEN <<tag_name, decoded_value>> ELSE @[i]]
                        ELSE Append(@, <<tag_name, decoded_value>>)]
             ELSE [result EXCEPT !.additional_datadog_w3c_tracestate =
                     IF @ = nullopt THEN Some(pair) ELSE Some(@[1] \o ";" \o pair)]
       IN parse_datadog_tracestate(parsed,
                                   SubSeq(datadog_value, pair_end + 1, Len(datadog_value)))

\* extract_tracestate, had the priority of traceparent been forgotten: the
\* last "s" of the "dd" entry then wins whatever its sign.
extract_tracestate_any_sign(result, headers) ==
  IF "tracestate" \notin DOMAIN headers THEN result
  ELSE LET tracestate == strip(headers["tracestate"])
           maybe_parsed == parse_tracestate(tracestate, 1)
       IN IF maybe_parsed = nullopt
          THEN IF tracestate # ""
               THEN [result EXCEPT !.additional_w3c_tracestate = Some(tracestate)]
               ELSE result
          ELSE parse_datadog_tracestate(
                 [result EXCEPT !.sampling_priority = nullopt,
                                !.additional_w3c_tracestate =
                                   IF maybe_parsed[1].other_entries # ""
                                   THEN Some(maybe_parsed[1].other_entries) ELSE @],
                 maybe_parsed[1].datadog_value)

extract_tracestate(result, headers) ==
  IF "tracestate" \notin DOMAIN headers THEN result
  ELSE LET tracestate == strip(headers["tracestate"])
           maybe_parsed == parse_tracestate(tracestate, 1)
       IN IF maybe_parsed = nullopt
          THEN IF tracestate # ""
               THEN [result EXCEPT !.additional_w3c_tracestate = Some(tracestate)]
               ELSE result
          ELSE parse_datadog_tracestate(
                 IF maybe_parsed[1].other_entries # ""
                 THEN [result EXCEPT !.additional_w3c_tracestate =
                                        Some(maybe_parsed[1].other_entries)]
                 ELSE result,
                 maybe_parsed[1].datadog_value)

extract_w3c_keeping_result(headers, span_tags) ==
  LET traceparent == extract_traceparent(ExtractedData, headers)
  IN [result |-> IF traceparent.error = nullopt
                 THEN extract_tracestate(traceparent.result, headers)
                 ELSE traceparent.result,
      span_tags |-> IF traceparent.error = nullopt THEN span_tags
                    ELSE MapSet(span_tags, "_dd.w3c_extraction_error",
                                traceparent.error[1]),
      lookups |-> <<"traceparent", "tracestate">>]

\* extract_w3c: the extracted context, the span tags as the call leaves them,
\* and the headers it looked up.
extract_w3c(headers, span_tags) ==
  LET traceparent == extract_traceparent(ExtractedData, headers)
  IN IF traceparent.error # nullopt
     THEN [result |-> ExtractedData,
           span_tags |-> MapSet(span_tags, "_dd.w3c_extraction_error",
                                traceparent.error[1]),
           lookups |-> <<"traceparent">>]
     ELSE IF traceparent.result.trace_id = nullopt
     THEN [result |-> traceparent.result, span_tags |-> span_tags,
           lookups |-> <<"traceparent">>]
     ELSE [result |-> extract_tracestate(traceparent.result, headers),
           span_tags |-> span_tags,
           lookups |-> <<"traceparent", "tracestate">>]

\* hex_padded (hex.h): 16 hexadecimal digits
hex_padded(n) == Zeroes(16 - Len(hex(n))) \o hex(n)

\* decode_tags, had it skipped the pairs without "="
RECURSIVE decode_tags_skipping(_)
decode_tags_skipping(header) ==
  IF header = "" THEN Some(<<>>)
  ELSE LET pair_end == Find(header, ",")
           pair == SubSeq(header, 1, pair_end - 1)
           kv_separator == Find(pair, "=")
           others == decode_tags_skipping(SubSeq(header, pair_end + 1, Len(header)))
       IN IF kv_separator > Len(pair) THEN others
          ELSE Some(<<<<SubSeq(pair, 1, kv_separator - 1),
                        SubSeq(pair, kv_separator + 1, Len(pair))>>>> \o others[1])

\* decode_tags (tag_propagation): the <<key, value>> pairs of a
\* "key=value,key=value" string, in their order; a pair without "=" is an
\* error.
RECURSIVE decode_tags(_)
decode_tags(header) ==
  IF header = "" THEN Some(<<>>)
  ELSE LET pair_end == Find(header, ",")
           pair == SubSeq(header, 1, pair_end - 1)
           kv_separator == Find(pair, "=")
           others == decode_tags(SubSeq(header, pair_end + 1, Len(header)))
       IN IF kv_separator > Len(pair) \/ others = nullopt THEN nullopt
          ELSE Some(<<<<SubSeq(pair, 1, kv_separator - 1),
                        SubSeq(pair, kv_separator + 1, Len(pair))>>>> \o others[1])

\* parse_trace_id_high without the test of the length
parse_trace_id_high_any_length(value) == parse_uint64(value, 16)

parse_trace_id_high(value) ==
  IF Len(value) # 16 THEN nullopt ELSE parse_uint64(value, 16)

\* handle_trace_tags: `result` and the span tags as the loop over the decoded
\* pairs leaves them.  A pair is appended unless its key lacks the prefix or
\* it is a "_dd.p.tid" that does not parse; the last "_dd.p.tid" that parses
\* is the upper half of the trace id, the last one that does not is reported.
handle_trace_tags(trace_tags, result, span_tags) ==
  LET integrate(decoded) ==
        LET high(i) == parse_trace_id_high(decoded[i][2])
            tids == {i \in 1..Len(decoded) : decoded[i][1] = trace_id_high}
            valid == {i \in tids : high(i) # nullopt}
            appended(pair) == /\ starts_with(pair[1], "_dd.p.")
                              /\ ~(/\ pair[1] = trace_id_high
                                   /\ parse_trace_id_high(pair[2]) = nullopt)
        IN [result |->
              [result EXCEPT
                 !.trace_id =
                    IF valid # {} /\ @ # nullopt
                    THEN Some([@[1] EXCEPT
                                 !.high = high(CHOOSE i \in valid :
                                                 \A j \in valid : j <= i)[1]])
                    ELSE @,
                 !.trace_tags = @ \o SelectSeq(decoded, appended)],
            span_tags |->
              IF tids \ valid # {}
              THEN MapSet(span_tags, propagation_error,
                          "malformed_tid "
                            \o decoded[CHOOSE i \in tids \ valid :
                                         \A j \in tids \ valid : j <= i][2])
              ELSE span_tags]
      decoded_tags(maybe_trace_tags) ==
        IF maybe_trace_tags = nullopt
        THEN [result |-> result,
              span_tags |-> MapSet(span_tags, propagation_error, "decoding_error")]
        ELSE integrate(maybe_trace_tags[1])
  IN decoded_tags(decode_tags(trace_tags))

\* extract_id_header, had it taken a header that does not parse for an
\* absent one.
extract_id_header_lenient(headers, header, header_kind, style_name, base) ==
  [error |-> nullopt,
   id |-> IF header \notin DOMAIN headers THEN nullopt
          ELSE parse_uint64(strip(headers[header]), base)]

\* extract_id_header: the id, if the header is present, or an error, which
\* is modelled by the prefix of its message.
extract_id_header(headers, header, header_kind, style_name, base) ==
  LET parsed(parsed_id) ==
        [error |-> IF parsed_id # nullopt THEN nullopt
                   ELSE Some("Could not extract " \o style_name \o "-style "
                               \o header_kind \o "ID from " \o header \o ": "
                               \o headers[header] \o " "),
         id |-> parsed_id]
  IN IF header \notin DOMAIN headers THEN [error |-> nullopt, id |-> nullopt]
     ELSE parsed(parse_uint64(strip(headers[header]), base))

\* extract_datadog: an error and no context, or the extracted context; and
\* the span tags as the call leaves them.
extract_datadog(headers, span_tags) ==
  LET extract(trace_id, parent_id, sampling_priority) ==
        LET with_ids == [ExtractedData EXCEPT
                           !.trace_id = IF trace_id.id # nullopt
                                        THEN Some(TraceID(trace_id.id[1])) ELSE nullopt,
                           !.parent_id = parent_id.id,
                           !.sampling_priority = sampling_priority,
                           !.origin = IF "x-datadog-origin" \in DOMAIN headers
                                      THEN Some(headers["x-datadog-origin"])
                                      ELSE nullopt]
        IN IF trace_id.error # nullopt
           THEN [error |-> trace_id.error, result |-> nullopt, span_tags |-> span_tags]
           ELSE IF parent_id.error # nullopt
           THEN [error |-> parent_id.error, result |-> nullopt, span_tags |-> span_tags]
           ELSE IF /\ "x-datadog-sampling-priority" \in DOMAIN headers
                   /\ sampling_priority = nullopt
           THEN [error |-> Some("Could not extract Datadog-style sampling priority from "
                                  \o "x-datadog-sampling-priority: "
                                  \o headers["x-datadog-sampling-priority"] \o " "),
                 result |-> nullopt, span_tags |-> span_tags]
           ELSE IF "x-datadog-tags" \in DOMAIN headers
           THEN LET handled(tags) == [error |-> nullopt, result |-> Some(tags.result),
                                      span_tags |-> tags.span_tags]
                IN handled(handle_trace_tags(headers["x-datadog-tags"], with_ids,
                                             span_tags))
           ELSE [error |-> nullopt, result |-> Some(with_ids), span_tags |-> span_tags]
  IN extract(extract_id_header(headers, "x-datadog-trace-id", "trace", "Datadog", 10),
             extract_id_header(headers, "x-datadog-parent-id", "parent span",
                               "Datadog", 10),
             IF "x-datadog-sampling-priority" \in DOMAIN headers
             THEN parse_int(strip(headers["x-datadog-sampling-priority"]), 10)
             ELSE nullopt)

\* extract_b3.  TraceID::parse_hex takes up to 32 hexadecimal digits, the
\* last 16 of which are the lower half.
extract_b3(headers, span_tags) ==
  LET parse_hex(hexed) ==
        LET halves(high, low) ==
              IF high = nullopt \/ low = nullopt THEN nullopt
              ELSE Some([high |-> high[1], low |-> low[1]])
        IN IF Len(hexed) > 32 THEN nullopt
           ELSE IF Len(hexed) <= 16 THEN halves(Some(0), parse_uint64(hexed, 16))
           ELSE halves(parse_uint64(SubSeq(hexed, 1, Len(hexed) - 16), 16),
                       parse_uint64(SubSeq(hexed, Len(hexed) - 15, Len(hexed)), 16))
      extract(trace_id, parent_id, sampling_priority) ==
        IF "x-b3-traceid" \in DOMAIN headers /\ trace_id = nullopt
        THEN [error |-> Some("Could not extract B3-style trace ID from \""
                               \o headers["x-b3-traceid"] \o "\": "),
              result |-> nullopt, span_tags |-> span_tags]
        ELSE IF parent_id.error # nullopt
        THEN [error |-> parent_id.error, result |-> nullopt, span_tags |-> span_tags]
        ELSE IF "x-b3-sampled" \in DOMAIN headers /\ sampling_priority = nullopt
        THEN [error |-> Some("Could not extract B3-style sampling priority from "
                               \o "x-b3-sampled: " \o headers["x-b3-sampled"] \o " "),
              result |-> nullopt, span_tags |-> span_tags]
        ELSE [error |-> nullopt,
              result |-> Some([ExtractedData EXCEPT
                                 !.trace_id = trace_id,
                                 !.parent_id = parent_id.id,
                                 !.sampling_priority = sampling_priority]),
              span_tags |-> span_tags]
  IN extract(IF "x-b3-traceid" \in DOMAIN headers
             THEN parse_hex(strip(headers["x-b3-traceid"])) ELSE nullopt,
             extract_id_header(headers, "x-b3-spanid", "parent span", "B3", 16),
             IF "x-b3-sampled" \in DOMAIN headers
             THEN parse_int(strip(headers["x-b3-sampled"]), 10) ELSE nullopt)

\* merge, had it taken a parent id of zeroes in the W3C context's "p" for a
\* parent id.
merge_taking_zero_parent(first_style, contexts) ==
  IF first_style \notin DOMAIN contexts THEN ExtractedData
  ELSE LET result == contexts[first_style]
           w3c == contexts["W3C"]
       IN IF "W3C" \in DOMAIN contexts /\ w3c.trace_id = result.trace_id
          THEN [result EXCEPT
                  !.additional_w3c_tracestate = w3c.additional_w3c_tracestate,
                  !.additional_datadog_w3c_tracestate =
                     w3c.additional_datadog_w3c_tracestate,
                  !.headers_examined = @ \o w3c.headers_examined,
                  !.datadog_w3c_parent_id =
                     IF result.parent_id = w3c.parent_id THEN @
                     ELSE IF w3c.datadog_w3c_parent_id # nullopt
                     THEN w3c.datadog_w3c_parent_id
                     ELSE IF /\ "DATADOG" \in DOMAIN contexts
                             /\ contexts["DATADOG"].trace_id = result.trace_id
                             /\ contexts["DATADOG"].parent_id # nullopt
                     THEN Some(hex_padded(contexts["DATADOG"].parent_id[1]))
                     ELSE @,
                  !.parent_id = w3c.parent_id]
          ELSE result

\* merge: one context out of the contexts the enabled styles extracted.
merge(first_style, contexts) ==
  IF first_style \notin DOMAIN contexts THEN ExtractedData
  ELSE LET result == contexts[first_style]
           w3c == contexts["W3C"]
       IN IF "W3C" \in DOMAIN contexts /\ w3c.trace_id = result.trace_id
          THEN [result EXCEPT
                  !.additional_w3c_tracestate = w3c.additional_w3c_tracestate,
                  !.additional_datadog_w3c_tracestate =
                     w3c.additional_datadog_w3c_tracestate,
                  !.headers_examined = @ \o w3c.headers_examined,
                  !.datadog_w3c_parent_id =
                     IF result.parent_id = w3c.parent_id THEN @
                     ELSE IF /\ w3c.datadog_w3c_parent_id # nullopt
                             /\ w3c.datadog_w3c_parent_id # Some(Zeroes(16))
                     THEN w3c.datadog_w3c_parent_id
                     ELSE IF /\ "DATADOG" \in DOMAIN contexts
                             /\ contexts["DATADOG"].trace_id = result.trace_id
                             /\ contexts["DATADOG"].parent_id # nullopt
                     THEN Some(hex_padded(contexts["DATADOG"].parent_id[1]))
                     ELSE @,
                  !.parent_id = w3c.parent_id]
          ELSE result

\* The caller of merge: every enabled style extracts, a style that fails
\* yields an empty context, and the first style, in the order of the
\* configuration, whose context has a trace id is the main one.
extract_and_merge(extraction_styles, headers) ==
  LET merged(contexts) ==
        LET with_trace_id == {i \in 1..Len(extraction_styles) :
                                contexts[extraction_styles[i]].trace_id # nullopt}
        IN IF with_trace_id = {} THEN ExtractedData
           ELSE merge(extraction_styles[CHOOSE i \in with_trace_id :
                                          \A j \in with_trace_id : i <= j],
                      contexts)
      context_of(extraction) ==
        IF extraction.error # nullopt THEN ExtractedData ELSE extraction.result[1]
  IN merged([style \in {extraction_styles[i] : i \in 1..Len(extraction_styles)} |->
               IF style = "W3C" THEN extract_w3c(headers, EmptyMap).result
               ELSE context_of(extract_datadog(headers, EmptyMap))])

(***************************************************************************)
(* Collaborators whose code is outside the modelled sources.               *)
(***************************************************************************)
Decision(priority, mechanism, origin, rate, limit_rate, max_per_second) ==
  [priority |-> priority, mechanism |-> mechanism, origin |-> origin,
   configured_rate |-> rate, limiter_effective_rate |-> limit_rate,
   limiter_max_per_second |-> max_per_second]

\* TraceSampler::decide: one of the decisions a sampler can return.
SamplerDecisions ==
  { Decision(1, Some(SamplingMechanism.DEFAULT), "LOCAL", Some(100), nullopt, nullopt),
    Decision(0, Some(SamplingMechanism.AGENT_RATE), "LOCAL", Some(50), nullopt, nullopt),
    Decision(1, Some(SamplingMechanism.RULE), "LOCAL", Some(50), Some(100), nullopt),
    Decision(0, Some(SamplingMechanism.RULE), "LOCAL", Some(50), nullopt, nullopt) }

\* SpanSampler::match followed by SpanSampler::Rule::decide.  The configured
\* rules match no root span; the rule matching a child keeps every other
\* child it is asked about (its limiter rejects the ones in between).
SpanRuleOutcome(span) ==
  IF span.parent_id = 0 THEN nullopt
  ELSE IF span.span_id % 2 = 0
       THEN Some(Decision(2, Some(SamplingMechanism.SPAN_RULE), "LOCAL",
                          Some(100), nullopt, Some(10)))
       ELSE Some(Decision(0, Some(SamplingMechanism.SPAN_RULE), "LOCAL",
                          Some(100), nullopt, Some(10)))

\* A sampling decision extracted from the incoming request: its mechanism is
\* not known.
ExtractedDecision(priority) ==
  Decision(priority, nullopt, "EXTRACTED", nullopt, nullopt, nullopt)

\* The arguments a segment is constructed with: injection styles, origin,
\* hostname, the limit on the size of the "x-datadog-tags" header, and the
\* sampling decision and trace tags extracted from the incoming request.
ConstructorArguments(styles, origin, hostname, decision, tags) ==
  [injection_styles |-> styles, origin |-> origin, hostname |-> hostname,
   tags_header_max_size |-> 11, trace_tags |-> tags,
   sampling_decision |-> decision, full_w3c_trace_id_hex |-> nullopt,
   additional_w3c_tracestate |-> nullopt,
   additional_datadog_w3c_tracestate |-> nullopt]

\* The segments of the model.  The extracted priority and the extracted tags
\* arrive in separate headers; a new trace has neither.
Segments ==
  { ConstructorArguments(<<"NONE">>, nullopt, nullopt, nullopt, EmptyMap),
    ConstructorArguments(<<"DATADOG", "W3C">>, Some("rum"), Some("h"),
                         nullopt, EmptyMap),
    ConstructorArguments(<<"DATADOG", "W3C">>, Some("rum"), Some("h"),
                         nullopt, MapSet(EmptyMap, usr_id, "u")),
    ConstructorArguments(<<"DATADOG", "W3C">>, Some("rum"), Some("h"),
                         Some(ExtractedDecision(1)),
                         MapSet(EmptyMap, decision_maker, "-3")),
    ConstructorArguments(<<"B3", "NONE">>, nullopt, nullopt,
                         Some(ExtractedDecision(0)),
                         MapSet(EmptyMap, decision_maker, "-3")),
    ConstructorArguments(<<"B3", "NONE">>, nullopt, nullopt,
                         Some(ExtractedDecision(1)), EmptyMap),
    ConstructorArguments(<<"B3", "NONE">>, nullopt, nullopt,
                         nullopt, MapSet(EmptyMap, usr_id, "u")) }

\* The priorities the application passes to override_sampling_priority.
OverridePriorities == {-1, 2}

(***************************************************************************)
(* State.                                                                  *)
(***************************************************************************)
VARIABLES
  cfg,                  \* the arguments the segment was constructed with
  spans_,               \* std::vector<std::unique_ptr<SpanData>>
  num_finished_spans_,
  sampling_decision_,   \* Optional<SamplingDecision>
  trace_tags_,
  mutex_,               \* the thread holding the mutex, or NoThread
  handle,               \* handle[s]: the thread owning the live Span handle of span s
  pc,                   \* where each thread is in the operation it executes
  self,                 \* the span whose data_ the thread's operation uses
  arg,                  \* the priority passed to override_sampling_priority
  sampling_priority,    \* inject's local copy of the priority
  trace_tags,           \* inject's local copy of the trace tags
  style_i,              \* inject's position in injection_styles_
  writer,               \* the DictWriter an inject call writes to
  observed,             \* the value sampling_decision() returns
  snapshot_origin,      \* the origin of the decision inject copied the priority of
  sent,                 \* the calls Collector::send has received
  logged,               \* the calls Logger::log_error has received
  decide_calls,         \* the number of calls TraceSampler::decide has received
  last_override,        \* the priority of the latest override, if any
  last_injected,        \* the priority of the latest inject's snapshot, if no
                        \* override came after it
  assert_failed,        \* an assert() of the code evaluated to false
  crashed,              \* the process died of an access to freed memory
  ops,                  \* the number of inject/override/read/set_tag calls so far
  matched,              \* the spans SpanSampler::match was called with, in order
  noop_injects,         \* the number of inject calls that returned at the NONE test
  request,              \* the headers of an incoming request (a DictReader)
  extracted,            \* what extract_w3c gave for `request`
  styles,               \* the styles enabled for extraction and for injection
  context,              \* the merged context of `request` and the span made from it
  injected,             \* the headers that span's inject wrote (a DictWriter)
  reextracted,          \* the merged context extracted from `injected`
  given,                \* the parts the headers of `request` were put together from
  style_extracted,      \* what extract_datadog or extract_b3 gave for `request`
  merging,              \* the arguments of a call of merge
  merge_result,         \* what that call returned
  moved_from,           \* moved_from[s]: the live moved-from Span objects of span s
  data_,                \* the tags and the error flag of the SpanData of one Span
  tag_ops,              \* the tag and error operations called on that Span, in order
  found,                \* the latest lookup_tag call and what it returned
  baggage,              \* what Baggage::extract returned for `request`
  url                   \* what DatadogAgentConfig::parse returned for given.input

segment == <<spans_, num_finished_spans_, sampling_decision_, trace_tags_, mutex_>>
locals == <<self, arg, sampling_priority, trace_tags, style_i, writer, observed,
            snapshot_origin>>
history == <<sent, logged, decide_calls, last_override, last_injected, assert_failed, crashed, ops,
             matched, noop_injects>>
tagging == <<data_, tag_ops, found>>
apart == <<moved_from, tagging, baggage, url>>
extraction == <<given, style_extracted, merging, merge_result, apart>>
propagation == <<request, extracted, styles, context, injected, reextracted,
                 extraction>>
vars == <<cfg, segment, handle, pc, locals, history, propagation>>

SpanData(trace_id, span_id, parent_id) ==
  [trace_id |-> trace_id, span_id |-> span_id, parent_id |-> parent_id,
   tags |-> EmptyMap, numeric_tags |-> EmptyMap]

\* TraceSegment::TraceSegment, called with the local root span.
InitSegment ==
  /\ cfg \in Segments
  /\ sampling_decision_ = cfg.sampling_decision
  /\ trace_tags_ = cfg.trace_tags
  /\ spans_ = <<SpanData(5, 1, 0)>>
  /\ num_finished_spans_ = 0
  /\ mutex_ = NoThread
  /\ handle = [s \in 1..MaxSpans |-> IF s = 1 THEN 1 ELSE NoThread]
  /\ pc = [t \in Threads |-> "idle"]
  /\ self = [t \in Threads |-> 0]
  /\ arg = [t \in Threads |-> 0]
  /\ sampling_priority = [t \in Threads |-> 0]
  /\ trace_tags = [t \in Threads |-> EmptyMap]
  /\ style_i = [t \in Threads |-> 0]
  /\ writer = [t \in Threads |-> EmptyMap]
  /\ observed = [t \in Threads |-> nullopt]
  /\ snapshot_origin = [t \in Threads |-> ""]
  /\ sent = <<>>
  /\ logged = <<>>
  /\ decide_calls = 0
  /\ last_override = nullopt
  /\ last_injected = nullopt
  /\ assert_failed = FALSE
  /\ crashed = FALSE
  /\ ops = 0
  /\ matched = <<>>
  /\ noop_injects = 0

\* The state of what the specification at hand leaves alone: no Span object
\* was moved, no tag operation was called.
InitApart ==
  /\ moved_from = [s \in 1..MaxSpans |-> 0]
  /\ data_ = [tags |-> EmptyMap, error |-> FALSE]
  /\ tag_ops = <<>>
  /\ found = nullopt
  /\ baggage = nullopt
  /\ url = nullopt

\* A segment of a trace that starts here: no request, nothing extracted.
Init ==
  /\ InitSegment
  /\ InitApart
  /\ request = EmptyMap
  /\ extracted = nullopt
  /\ styles = <<>>
  /\ context = nullopt
  /\ injected = nullopt
  /\ reextracted = nullopt
  /\ given = [what |-> "nothing"]
  /\ style_extracted = nullopt
  /\ merging = nullopt
  /\ merge_result = nullopt

Goto(t, label) == pc' = [pc EXCEPT ![t] = label]

\* The operation returns to the application.
Return(t) == /\ Goto(t, "idle")
             /\ self' = [self EXCEPT ![t] = 0]

\* A thread may start an operation through the handle of span s.
Owns(t, s) == /\ ~crashed
              /\ pc[t] = "idle"
              /\ handle[s] = t

At(t, label) == ~crashed /\ pc[t] = label

(***************************************************************************)
(* The mutex: std::lock_guard<std::mutex> lock(mutex_).                    *)
(***************************************************************************)
Acquire(t) == /\ mutex_ = NoThread
              /\ mutex_' = t

Release(t) == mutex_' = NoThread

\* An access to memory that another thread is writing: the process goes on,
\* or it dies there and then.
Crash == /\ crashed' = TRUE
         /\ UNCHANGED <<cfg, propagation, segment, handle, pc, locals, sent, logged,
                        decide_calls, last_override, last_injected, assert_failed, ops,
                        matched, noop_injects>>

(***************************************************************************)
(* Span::create_child and TraceSegment::register_span.                     *)
(***************************************************************************)
\* The precondition register_span asserts.
register_span_assertion(spans, num_finished) ==
  spans = <<>> \/ num_finished < Len(spans)

\* A create_child that makes a sibling: the parent is the creator's parent.
SiblingData(data, span_id) == SpanData(data.trace_id, span_id, data.parent_id)

\* The SpanData create_child makes for the child of the span with `data`.
ChildData(data, span_id) == SpanData(data.trace_id, span_id, data.span_id)

\* Span::create_child up to the lock of register_span: the child's SpanData
\* is built from the creating span's own data.
CreateChild(t, s) ==
  /\ Owns(t, s)
  /\ Len(spans_) < MaxSpans
  /\ Acquire(t)
  /\ Goto(t, "register_span")
  /\ self' = [self EXCEPT ![t] = s]
  /\ UNCHANGED <<cfg, propagation, spans_, num_finished_spans_, sampling_decision_,
                 trace_tags_, handle, arg, sampling_priority, trace_tags,
                 style_i, writer, observed, snapshot_origin, history>>

\* The locked block of register_span; then create_child returns the child's
\* handle, which the application keeps on this thread or passes to another.
RegisterSpan(t) ==
  /\ At(t, "register_span")
  /\ assert_failed' =
       (assert_failed \/ ~register_span_assertion(spans_, num_finished_spans_))
  /\ spans_' = Append(spans_, ChildData(spans_[self[t]], Len(spans_) + 1))
  /\ Release(t)
  /\ \E u \in Threads : handle' = [handle EXCEPT ![Len(spans_')] = u]
  /\ Return(t)
  /\ UNCHANGED <<cfg, propagation, num_finished_spans_, sampling_decision_, trace_tags_,
                 arg, sampling_priority, trace_tags, style_i, writer,
                 observed, snapshot_origin, sent, logged, decide_calls, matched, noop_injects,
                 last_override, last_injected, crashed, ops>>

(***************************************************************************)
(* Span::~Span and TraceSegment::span_finished.                            *)
(***************************************************************************)
\* A counter that counts a finished span twice.
IncrementFinishedTwice(n) == n + 2

IncrementFinished(n) == n + 1

\* A test that is off by one: the segment is finalized while a span is live.
AllButOneSpanFinished(num_finished, size) == ~(num_finished < size - 1)

\* The test span_finished goes on to finalize the segment on.
AllSpansFinished(num_finished, size) == ~(num_finished < size)

\* A span_finished whose lock guard lives to the end of the function.
AfterFinishedBlockStillLocked(t) == t

\* The holder of the mutex when the locked block of span_finished is left.
AfterFinishedBlock(t) == NoThread

\* The destructor of a handle that was not moved from, up to the lock of
\* span_finished.
SpanDestroy(t, s) ==
  /\ Owns(t, s)
  /\ handle' = [handle EXCEPT ![s] = NoThread]
  /\ self' = [self EXCEPT ![t] = s]
  /\ Acquire(t)
  /\ Goto(t, "span_finished")
  /\ UNCHANGED <<cfg, propagation, spans_, num_finished_spans_, sampling_decision_,
                 trace_tags_, arg, sampling_priority, trace_tags, style_i,
                 writer, observed, snapshot_origin, history>>

\* The locked block of span_finished.
SpanFinished(t) ==
  /\ At(t, "span_finished")
  /\ num_finished_spans_' = IncrementFinished(num_finished_spans_)
  /\ assert_failed' = (assert_failed \/ ~(num_finished_spans_' <= Len(spans_)))
  /\ mutex_' = AfterFinishedBlock(t)
  /\ IF AllSpansFinished(num_finished_spans_', Len(spans_))
     THEN Goto(t, "finalize_decision") /\ UNCHANGED self
     ELSE Return(t)
  /\ UNCHANGED <<cfg, propagation, spans_, sampling_decision_, trace_tags_, handle, arg,
                 sampling_priority, trace_tags, style_i, writer, observed,
                 snapshot_origin, sent, logged, decide_calls, matched, noop_injects, last_override, last_injected,
                 crashed, ops>>

(***************************************************************************)
(* make_sampling_decision_if_null and update_decision_maker_trace_tag.     *)
(***************************************************************************)
\* A make_sampling_decision_if_null that asks the sampler every time.
HasDecisionNever(decision) == FALSE

\* A make_sampling_decision_if_null that lets the sampler replace a manual
\* decision.
HasDecisionUnlessManual(decision) ==
  /\ decision # nullopt
  /\ decision[1].mechanism # Some(SamplingMechanism.MANUAL)

\* The test make_sampling_decision_if_null returns on.
HasDecision(decision) == decision # nullopt

\* An update that erases the tag for negative priorities only.
update_decision_maker_trace_tag_negative(decision, tags) ==
  IF decision.priority < 0
  THEN MapErase(tags, decision_maker)
  ELSE MapSet(tags, decision_maker, "-" \o to_string(decision.mechanism[1]))

\* An update that never erases the tag.
update_decision_maker_trace_tag_no_erase(decision, tags) ==
  IF decision.priority <= 0
  THEN tags
  ELSE MapSet(tags, decision_maker, "-" \o to_string(decision.mechanism[1]))

update_decision_maker_trace_tag(decision, tags) ==
  IF decision.priority <= 0
  THEN MapErase(tags, decision_maker)
  ELSE MapSet(tags, decision_maker, "-" \o to_string(decision.mechanism[1]))

\* The effect of make_sampling_decision_if_null on the segment.
MakeSamplingDecisionIfNull ==
  IF HasDecision(sampling_decision_)
  THEN UNCHANGED <<sampling_decision_, trace_tags_, decide_calls>>
  ELSE \E d \in SamplerDecisions :
         /\ sampling_decision_' = Some(d)
         /\ trace_tags_' = update_decision_maker_trace_tag(d, trace_tags_)
         /\ decide_calls' = decide_calls + 1

(***************************************************************************)
(* Finalization: the rest of span_finished, after the locked block.        *)
(***************************************************************************)
FinalizeDecision(t) ==
  /\ At(t, "finalize_decision")
  /\ MakeSamplingDecisionIfNull
  /\ assert_failed' = (assert_failed \/ sampling_decision_' = nullopt)
  /\ Goto(t, "finalize_spans")
  /\ UNCHANGED <<cfg, propagation, spans_, num_finished_spans_, mutex_, handle, locals,
                 sent, logged, last_override, last_injected, crashed, ops, matched,
                 noop_injects>>

SpanSamplingTagsAnyDecision(numeric_tags, outcome) ==
  IF outcome = nullopt
  THEN numeric_tags
  ELSE MapSet(numeric_tags, "_dd.span_sampling.mechanism", outcome[1].mechanism[1])

\* The numeric tags the span sampler leaves on a span.
SpanSamplingTags(numeric_tags, outcome) ==
  IF outcome = nullopt \/ outcome[1].priority <= 0
  THEN numeric_tags
  ELSE LET with_rate ==
             MapSet(MapSet(numeric_tags, "_dd.span_sampling.mechanism",
                           outcome[1].mechanism[1]),
                    "_dd.span_sampling.rule_rate", outcome[1].configured_rate[1])
       IN IF outcome[1].limiter_max_per_second # nullopt
          THEN MapSet(with_rate, "_dd.span_sampling.max_per_second",
                      outcome[1].limiter_max_per_second[1])
          ELSE with_rate

\* The tags finalization writes on the local root span.
RootTags(tags) ==
  LET merged == MapInsertAll(tags, trace_tags_)
  IN IF cfg.hostname # nullopt
     THEN MapSet(merged, "_dd.hostname", cfg.hostname[1])
     ELSE merged

RootNumericTagsWithoutDefault(numeric_tags, decision) ==
  LET with_priority == MapSet(numeric_tags, "_sampling_priority_v1", decision.priority)
  IN IF decision.origin = "LOCAL"
     THEN IF decision.mechanism = Some(SamplingMechanism.AGENT_RATE)
          THEN MapSet(with_priority, "_dd.agent_psr", decision.configured_rate[1])
          ELSE IF decision.mechanism = Some(SamplingMechanism.RULE)
               THEN MapSet(with_priority, "_dd.rule_psr", decision.configured_rate[1])
               ELSE with_priority
     ELSE with_priority

RootNumericTags(numeric_tags, decision) ==
  LET with_priority == MapSet(numeric_tags, "_sampling_priority_v1", decision.priority)
  IN IF decision.origin = "LOCAL"
     THEN IF \/ decision.mechanism = Some(SamplingMechanism.AGENT_RATE)
             \/ decision.mechanism = Some(SamplingMechanism.DEFAULT)
          THEN MapSet(with_priority, "_dd.agent_psr", decision.configured_rate[1])
          ELSE IF decision.mechanism = Some(SamplingMechanism.RULE)
               THEN LET with_rule == MapSet(with_priority, "_dd.rule_psr",
                                            decision.configured_rate[1])
                    IN IF decision.limiter_effective_rate # nullopt
                       THEN MapSet(with_rule, "_dd.limit_psr",
                                   decision.limiter_effective_rate[1])
                       ELSE with_rule
               ELSE with_priority
     ELSE with_priority

OriginTags(tags) ==
  IF cfg.origin # nullopt THEN MapSet(tags, "_dd.origin", cfg.origin[1]) ELSE tags

SpanSamplingRunsNegative(decision) == decision.priority < 0

\* Span sampling happens when the trace is dropped.
SpanSamplingRuns(decision) == decision.priority <= 0

\* Span sampling, the root span's tags and the origin tag of every span.
FinalizeSpans(t) ==
  /\ At(t, "finalize_spans")
  /\ sampling_decision_ # nullopt
  /\ spans_ # <<>>
  /\ matched' = IF SpanSamplingRuns(sampling_decision_[1])
                THEN matched \o [i \in 1..Len(spans_) |-> spans_[i].span_id]
                ELSE matched
  /\ LET decision == sampling_decision_[1]
         sampled == [i \in 1..Len(spans_) |->
                       IF SpanSamplingRuns(decision)
                       THEN [spans_[i] EXCEPT !.numeric_tags =
                               SpanSamplingTags(@, SpanRuleOutcome(spans_[i]))]
                       ELSE spans_[i]]
         rooted == [sampled EXCEPT
                      ![1].tags = RootTags(@),
                      ![1].numeric_tags = RootNumericTags(@, decision)]
     IN spans_' = [i \in 1..Len(spans_) |->
                     [rooted[i] EXCEPT !.tags = OriginTags(@)]]
  /\ Goto(t, "send")
  /\ UNCHANGED <<cfg, propagation, num_finished_spans_, sampling_decision_, trace_tags_,
                 mutex_, handle, locals, sent, logged, decide_calls,
                 last_override, last_injected, assert_failed, crashed, ops, noop_injects>>

\* collector_->send(std::move(spans_), trace_sampler_): the collector may or
\* may not move the vector's contents out, and succeeds or returns an error.
Send(t) ==
  /\ At(t, "send")
  /\ spans_' \in {spans_, <<>>}
  /\ \E error \in BOOLEAN :
       /\ sent' = Append(sent, [spans |-> spans_, locked |-> mutex_ = t,
                                error |-> error])
       /\ IF error
          THEN Goto(t, "log_send_error") /\ UNCHANGED self
          ELSE Return(t)
  /\ UNCHANGED <<cfg, propagation, num_finished_spans_, sampling_decision_, trace_tags_,
                 mutex_, handle, arg, sampling_priority, trace_tags, style_i,
                 writer, observed, snapshot_origin, logged, decide_calls, matched, noop_injects,
                 last_override, last_injected, assert_failed, crashed, ops>>

ErrorWithoutPrefix == ""

\* error->with_prefix(...): the prefix of the logged message; the collector's
\* own text follows it.
ErrorWithPrefix == "Error sending spans to collector: "

\* if (auto* error = result.if_error()) logger_->log_error(...)
LogSendError(t) ==
  /\ At(t, "log_send_error")
  /\ logged' = Append(logged, [message |-> ErrorWithPrefix, locked |-> mutex_ = t])
  /\ Return(t)
  /\ UNCHANGED <<cfg, propagation, segment, handle, arg, sampling_priority, trace_tags,
                 style_i, writer, observed, snapshot_origin, sent,
                 decide_calls, matched, noop_injects, last_override, last_injected, assert_failed, crashed, ops>>

(***************************************************************************)
(* TraceSegment::override_sampling_priority.                               *)
(***************************************************************************)
ManualDecision(priority) ==
  Decision(priority, Some(SamplingMechanism.MANUAL), "LOCAL", nullopt, nullopt, nullopt)

\* The call, through the handle of any live span, up to the lock.
OverrideSamplingPriority(t, priority) ==
  /\ \E s \in 1..MaxSpans : Owns(t, s)
  /\ ops < MaxOps
  /\ ops' = ops + 1
  /\ arg' = [arg EXCEPT ![t] = priority]
  /\ Acquire(t)
  /\ Goto(t, "override")
  /\ UNCHANGED <<cfg, propagation, spans_, num_finished_spans_, sampling_decision_,
                 trace_tags_, handle, self, sampling_priority, trace_tags,
                 style_i, writer, observed, snapshot_origin, sent, logged,
                 decide_calls, matched, noop_injects, last_override, last_injected, assert_failed, crashed>>

\* The locked block.
Override(t) ==
  /\ At(t, "override")
  /\ sampling_decision_' = Some(ManualDecision(arg[t]))
  /\ trace_tags_' = update_decision_maker_trace_tag(ManualDecision(arg[t]), trace_tags_)
  /\ last_override' = Some(arg[t])
  /\ last_injected' = nullopt
  /\ Release(t)
  /\ Return(t)
  /\ arg' = [arg EXCEPT ![t] = 0]
  /\ UNCHANGED <<cfg, propagation, spans_, num_finished_spans_, handle, sampling_priority,
                 trace_tags, style_i, writer, observed, snapshot_origin, sent,
                 logged, decide_calls, matched, noop_injects, assert_failed, crashed, ops>>

(***************************************************************************)
(* TraceSegment::sampling_decision.                                        *)
(***************************************************************************)
SamplingDecision(t) ==
  /\ \E s \in 1..MaxSpans : Owns(t, s)
  /\ ops < MaxOps
  /\ ops' = ops + 1
  /\ Acquire(t)
  /\ Goto(t, "sampling_decision")
  /\ UNCHANGED <<cfg, propagation, spans_, num_finished_spans_, sampling_decision_,
                 trace_tags_, handle, locals, sent, logged, decide_calls, matched, noop_injects,
                 last_override, last_injected, assert_failed, crashed>>

\* The locked block: the decision is copied into the return value.
SamplingDecisionRead(t) ==
  /\ At(t, "sampling_decision")
  /\ observed' = [observed EXCEPT ![t] = sampling_decision_]
  /\ Release(t)
  /\ Goto(t, "sampling_decision_return")
  /\ UNCHANGED <<cfg, propagation, spans_, num_finished_spans_, sampling_decision_,
                 trace_tags_, handle, self, arg, sampling_priority,
                 trace_tags, style_i, writer, snapshot_origin, history>>

\* The caller has the value.
SamplingDecisionReturn(t) ==
  /\ At(t, "sampling_decision_return")
  /\ observed' = [observed EXCEPT ![t] = nullopt]
  /\ Return(t)
  /\ UNCHANGED <<cfg, propagation, segment, handle, arg, sampling_priority, trace_tags,
                 style_i, writer, snapshot_origin, history>>

(***************************************************************************)
(* Span::set_tag, through the handle that owns the span.                   *)
(***************************************************************************)
SetTag(t, s) ==
  /\ Owns(t, s)
  /\ ops < MaxOps
  /\ ops' = ops + 1
  /\ self' = [self EXCEPT ![t] = s]
  /\ Goto(t, "set_tag")
  /\ UNCHANGED <<cfg, propagation, segment, handle, arg, sampling_priority, trace_tags,
                 style_i, writer, observed, snapshot_origin, sent, logged,
                 decide_calls, matched, noop_injects, last_override, last_injected, assert_failed, crashed>>

\* Some other thread is writing the tags of span s.
TagsWrittenByOther(t, s) ==
  \E u \in Threads \ {t} :
    \/ pc[u] = "set_tag" /\ self[u] = s
    \/ pc[u] = "inject_oversize" /\ s = 1

\* A write into the tags of span s by thread t.  Two unsynchronized writes
\* into one unordered_map are undefined behaviour: besides the crash, the
\* first of them may be lost.
WriteTag(t, s, name, value) ==
  \/ spans_' = [spans_ EXCEPT ![s].tags = MapSet(@, name, value)]
  \/ TagsWrittenByOther(t, s) /\ UNCHANGED spans_

\* data_->tags.insert_or_assign(name, value)
SetTagWrite(t) ==
  /\ At(t, "set_tag")
  /\ \/ /\ WriteTag(t, self[t], "team", "a")
        /\ Return(t)
        /\ UNCHANGED <<cfg, propagation, num_finished_spans_, sampling_decision_,
                       trace_tags_, mutex_, handle, arg, sampling_priority,
                       trace_tags, style_i, writer, observed, snapshot_origin,
                       history>>
     \/ /\ TagsWrittenByOther(t, self[t])
        /\ Crash

(***************************************************************************)
(* TraceSegment::inject and inject_trace_tags.                             *)
(***************************************************************************)
AnyStyleIsNone(injection_styles) ==
  \E i \in 1..Len(injection_styles) : injection_styles[i] = "NONE"

\* injection_styles_.size() == 1 && injection_styles_[0] == PropagationStyle::NONE
OnlyStyleIsNone(injection_styles) ==
  Len(injection_styles) = 1 /\ injection_styles[1] = "NONE"

\* The encoded trace tags do not fit in the "x-datadog-tags" header.
Oversized(encoded, tags_header_max_size) == Len(encoded) > tags_header_max_size

\* Span::inject up to the lock: nothing happens if the only style is NONE.
Inject(t, s) ==
  /\ Owns(t, s)
  /\ ops < MaxOps
  /\ ops' = ops + 1
  /\ IF OnlyStyleIsNone(cfg.injection_styles)
     THEN /\ noop_injects' = noop_injects + 1
          /\ UNCHANGED <<pc, self, mutex_>>
     ELSE /\ Acquire(t)
          /\ Goto(t, "inject_snapshot")
          /\ self' = [self EXCEPT ![t] = s]
          /\ UNCHANGED noop_injects
  /\ UNCHANGED <<cfg, propagation, spans_, num_finished_spans_, sampling_decision_,
                 trace_tags_, handle, arg, sampling_priority, trace_tags,
                 style_i, writer, observed, snapshot_origin, sent, logged,
                 decide_calls, matched, last_override, last_injected, assert_failed, crashed>>

\* The locked block: decide if there is no decision, copy priority and tags.
InjectSnapshot(t) ==
  /\ At(t, "inject_snapshot")
  /\ MakeSamplingDecisionIfNull
  /\ assert_failed' = (assert_failed \/ sampling_decision_' = nullopt)
  /\ sampling_priority' = [sampling_priority EXCEPT ![t] = sampling_decision_'[1].priority]
  /\ trace_tags' = [trace_tags EXCEPT ![t] = trace_tags_']
  /\ snapshot_origin' = [snapshot_origin EXCEPT ![t] = sampling_decision_'[1].origin]
  /\ last_injected' = Some(sampling_priority'[t])
  /\ Release(t)
  /\ style_i' = [style_i EXCEPT ![t] = 1]
  /\ Goto(t, "inject_style")
  /\ UNCHANGED <<cfg, propagation, spans_, num_finished_spans_, handle, self, arg, writer,
                 observed, sent, logged, last_override, crashed, ops, matched,
                 noop_injects>>

\* An inject that reads the segment's priority again for every header.
InjectedPriorityReadAgain(t) == sampling_decision_[1].priority

\* The sampling priority inject writes into the headers of thread t's call.
InjectedPriority(t) == sampling_priority[t]

\* One case of the switch over the style: the headers of the style, before
\* "x-datadog-tags", for a segment constructed with `config`.
WriterSet(config, span, priority, tags, style, w) ==
  LET with_origin(h) == IF config.origin # nullopt
                        THEN MapSet(h, "x-datadog-origin", config.origin[1])
                        ELSE h
  IN CASE style = "DATADOG" ->
            with_origin(
              MapSet(MapSet(MapSet(w, "x-datadog-trace-id", to_string(span.trace_id)),
                            "x-datadog-parent-id", to_string(span.span_id)),
                     "x-datadog-sampling-priority", to_string(priority)))
       [] style = "B3" ->
            with_origin(
              MapSet(MapSet(MapSet(w, "x-b3-traceid", hex(span.trace_id)),
                            "x-b3-spanid", hex(span.span_id)),
                     "x-b3-sampled",
                     to_string(IF priority > 0 THEN 1 ELSE 0)))
       [] style = "W3C" ->
            MapSet(MapSet(w, "traceparent",
                          encode_traceparent(span.trace_id, config.full_w3c_trace_id_hex,
                                             span.span_id, priority)),
                   "tracestate",
                   encode_tracestate(priority, config.origin, tags,
                                     config.additional_datadog_w3c_tracestate,
                                     config.additional_w3c_tracestate))
       [] OTHER -> w

\* The headers thread t's call writes for one style.
StyleHeaders(t, style, w) ==
  WriterSet(cfg, spans_[self[t]], InjectedPriority(t), trace_tags[t], style, w)

\* A loop that writes "x-datadog-tags" whatever the size of its value.
RECURSIVE inject_any_size(_, _, _, _, _, _)
inject_any_size(config, span, priority, tags, i, w) ==
  IF i > Len(config.injection_styles) THEN w
  ELSE LET style == config.injection_styles[i]
           headers == WriterSet(config, span, priority, tags, style, w)
       IN inject_any_size(config, span, priority, tags, i + 1,
                          IF style \in {"DATADOG", "B3"} /\ encode_tags(tags) # ""
                          THEN MapSet(headers, "x-datadog-tags", encode_tags(tags))
                          ELSE headers)

\* The loop over injection_styles_, from style i on, when no other thread
\* runs: the headers the call leaves in the writer.
RECURSIVE inject(_, _, _, _, _, _)
inject(config, span, priority, tags, i, w) ==
  IF i > Len(config.injection_styles) THEN w
  ELSE LET style == config.injection_styles[i]
           headers == WriterSet(config, span, priority, tags, style, w)
           encoded == encode_tags(tags)
       IN inject(config, span, priority, tags, i + 1,
                 IF /\ style \in {"DATADOG", "B3"}
                    /\ ~Oversized(encoded, config.tags_header_max_size)
                    /\ encoded # ""
                 THEN MapSet(headers, "x-datadog-tags", encoded)
                 ELSE headers)

\* Some other thread holds the mutex and is appending to spans_.
SpansAppendedByOther(t) ==
  \E u \in Threads \ {t} : pc[u] = "register_span"

\* One iteration of the loop over injection_styles_.  For the DATADOG and B3
\* styles, spans_.front() is evaluated, without the lock, to pass the local
\* root's tags to inject_trace_tags.
InjectStyle(t) ==
  /\ At(t, "inject_style")
  /\ style_i[t] <= Len(cfg.injection_styles)
  /\ LET style == cfg.injection_styles[style_i[t]]
         headers == StyleHeaders(t, style, writer[t])
         encoded == encode_tags(trace_tags[t])
     IN \/ /\ IF style \in {"DATADOG", "B3"}
              THEN IF Oversized(encoded, cfg.tags_header_max_size)
                   THEN /\ writer' = [writer EXCEPT ![t] = headers]
                        /\ Goto(t, "inject_oversize")
                        /\ UNCHANGED style_i
                   ELSE /\ writer' = [writer EXCEPT ![t] =
                                        IF encoded # ""
                                        THEN MapSet(headers, "x-datadog-tags", encoded)
                                        ELSE headers]
                        /\ style_i' = [style_i EXCEPT ![t] = @ + 1]
                        /\ UNCHANGED pc
              ELSE /\ writer' = [writer EXCEPT ![t] = headers]
                   /\ style_i' = [style_i EXCEPT ![t] = @ + 1]
                   /\ UNCHANGED pc
           /\ UNCHANGED <<cfg, propagation, segment, handle, self, arg, sampling_priority,
                          trace_tags, observed, snapshot_origin, history>>
        \/ /\ style \in {"DATADOG", "B3"}
           /\ SpansAppendedByOther(t)
           /\ Crash

\* inject_trace_tags, oversized value: the diagnostic is logged and the error
\* tag is written into the local root's tags.
InjectOversize(t) ==
  /\ At(t, "inject_oversize")
  /\ \/ /\ logged' = Append(logged,
                            [message |-> "Serialized x-datadog-tags header value is too large.",
                             locked |-> mutex_ = t])
        /\ WriteTag(t, 1, propagation_error, "inject_max_size")
        /\ style_i' = [style_i EXCEPT ![t] = @ + 1]
        /\ Goto(t, "inject_style")
        /\ UNCHANGED <<cfg, propagation, num_finished_spans_, sampling_decision_,
                       trace_tags_, mutex_, handle, self, arg,
                       sampling_priority, trace_tags, writer, observed,
                       snapshot_origin, sent, decide_calls, matched, noop_injects, last_override, last_injected,
                       assert_failed, crashed, ops>>
     \/ /\ TagsWrittenByOther(t, 1)
        /\ Crash

\* The loop is over: inject returns, the caller has the headers.
InjectReturn(t) ==
  /\ At(t, "inject_style")
  /\ style_i[t] > Len(cfg.injection_styles)
  /\ Return(t)
  /\ sampling_priority' = [sampling_priority EXCEPT ![t] = 0]
  /\ trace_tags' = [trace_tags EXCEPT ![t] = EmptyMap]
  /\ style_i' = [style_i EXCEPT ![t] = 0]
  /\ writer' = [writer EXCEPT ![t] = EmptyMap]
  /\ snapshot_origin' = [snapshot_origin EXCEPT ![t] = ""]
  /\ UNCHANGED <<cfg, propagation, segment, handle, arg, observed, history>>

(***************************************************************************)
(* The specification.                                                      *)
(***************************************************************************)
Next ==
  \E t \in Threads :
    \/ \E s \in 1..MaxSpans : CreateChild(t, s)
    \/ RegisterSpan(t)
    \/ \E s \in 1..MaxSpans : SpanDestroy(t, s)
    \/ SpanFinished(t)
    \/ FinalizeDecision(t)
    \/ FinalizeSpans(t)
    \/ Send(t)
    \/ LogSendError(t)
    \/ \E p \in OverridePriorities : OverrideSamplingPriority(t, p)
    \/ Override(t)
    \/ SamplingDecision(t)
    \/ SamplingDecisionRead(t)
    \/ SamplingDecisionReturn(t)
    \/ \E s \in 1..MaxSpans : SetTag(t, s)
    \/ SetTagWrite(t)
    \/ \E s \in 1..MaxSpans : Inject(t, s)
    \/ InjectSnapshot(t)
    \/ InjectStyle(t)
    \/ InjectOversize(t)
    \/ InjectReturn(t)

Spec == Init /\ [][Next]_vars

\* The steps of thread t inside an operation it has begun: none of them
\* waits for the mutex, which every operation takes at its first step.
Proceed(t) ==
  \/ RegisterSpan(t)
  \/ SpanFinished(t)
  \/ FinalizeDecision(t)
  \/ FinalizeSpans(t)
  \/ Send(t)
  \/ LogSendError(t)
  \/ Override(t)
  \/ SamplingDecisionRead(t)
  \/ SamplingDecisionReturn(t)
  \/ SetTagWrite(t)
  \/ InjectSnapshot(t)
  \/ InjectStyle(t)
  \/ InjectOversize(t)
  \/ InjectReturn(t)

\* A segment of a new trace with two injection styles and a trace tag.
FairInit ==
  /\ Init
  /\ cfg = ConstructorArguments(<<"B3", "NONE">>, nullopt, nullopt, nullopt,
                                MapSet(EmptyMap, usr_id, "u"))

\* Fair scheduling: a thread inside an operation goes on; and the
\* application destroys every Span it holds, its destructor getting the
\* mutex if the mutex is free again and again.
FairSpec ==
  /\ FairInit
  /\ [][Next]_vars
  /\ \A t \in Threads :
       /\ WF_vars(Proceed(t))
       /\ \A s \in 1..MaxSpans : SF_vars(SpanDestroy(t, s))

\* The variables of the segment and of trace context propagation.
tracing == <<cfg, segment, handle, pc, locals, history, request, extracted, styles, context, injected, reextracted, given, style_extracted, merging, merge_result>>

(***************************************************************************)
(* The lifetime of Span objects: create_child, moves and destructions.     *)
(* Span is movable and not copyable; a move makes a new Span object from   *)
(* an existing one, which is left moved-from until it is destroyed.        *)
(***************************************************************************)
MaxMoves == 2

\* A destructor without the test of trace_segment_.
NotifiesAlways(trace_segment) == TRUE

\* if (!trace_segment_) return; ... trace_segment_->span_finished();
Notifies(trace_segment) == trace_segment # nullopt

\* trace_segment_ of a moved-from Span: the shared_ptr was moved out.
MovedFromSegment == nullopt

\* Span::Span(Span&&): the new object is kept on this thread or passed to
\* another one; the source stays behind, moved-from.
Move(t, s) ==
  /\ Owns(t, s)
  /\ moved_from[s] < MaxMoves
  /\ \E u \in Threads : handle' = [handle EXCEPT ![s] = u]
  /\ moved_from' = [moved_from EXCEPT ![s] = @ + 1]
  /\ UNCHANGED <<cfg, segment, pc, locals, history, request, extracted, styles,
                 context, injected, reextracted, given, style_extracted, merging,
                 merge_result, tagging, baggage, url>>

\* Span::~Span of a moved-from object: it returns at the test of
\* trace_segment_, and calls span_finished if the pointer is not null.
MovedFromDestroy(t, s) ==
  /\ ~crashed
  /\ pc[t] = "idle"
  /\ moved_from[s] > 0
  /\ moved_from' = [moved_from EXCEPT ![s] = @ - 1]
  /\ IF ~Notifies(MovedFromSegment)
     THEN UNCHANGED <<mutex_, pc, self>>
     ELSE /\ Acquire(t)
          /\ Goto(t, "span_finished")
          /\ self' = [self EXCEPT ![t] = s]
  /\ UNCHANGED <<cfg, spans_, num_finished_spans_, sampling_decision_, trace_tags_,
                 handle, arg, sampling_priority, trace_tags, style_i, writer,
                 observed, snapshot_origin, history, request, extracted, styles,
                 context, injected, reextracted, given, style_extracted, merging,
                 merge_result, tagging, baggage, url>>

LifetimeNext ==
  \E t \in Threads :
    \/ \E s \in 1..MaxSpans : CreateChild(t, s)
    \/ RegisterSpan(t)
    \/ \E s \in 1..MaxSpans : Move(t, s)
    \/ \E s \in 1..MaxSpans : MovedFromDestroy(t, s)
    \/ \E s \in 1..MaxSpans : SpanDestroy(t, s)
    \/ SpanFinished(t)
    \/ FinalizeDecision(t)
    \/ FinalizeSpans(t)
    \/ Send(t)
    \/ LogSendError(t)

LifetimeSpec == Init /\ [][LifetimeNext]_vars

(***************************************************************************)
(* The tags and the error state of one span, through its Span.             *)
(***************************************************************************)
MaxTagOps == 3

\* tags::is_internal: the reserved names, which are the names with the
\* prefix "_dd." and the three error tags.
is_internal(name) ==
  \/ starts_with(name, "_dd.")
  \/ name \in {"error.message", "error.type", "error.stack"}

\* Span::lookup_tag
lookup_tag(data, name) ==
  IF is_internal(name) THEN nullopt
  ELSE IF name \notin DOMAIN data.tags THEN nullopt
       ELSE Some(data.tags[name])

\* A set_tag without the test of the name.
set_tag_any_name(data, name, value) ==
  [data EXCEPT !.tags = MapSet(@, name, value)]

\* Span::set_tag
set_tag(data, name, value) ==
  IF ~is_internal(name) THEN [data EXCEPT !.tags = MapSet(@, name, value)] ELSE data

\* Span::remove_tag
remove_tag(data, name) ==
  IF ~is_internal(name) THEN [data EXCEPT !.tags = MapErase(@, name)] ELSE data

\* Span::set_error
set_error(data, is_error) ==
  IF ~is_error
  THEN [data EXCEPT !.error = is_error,
                    !.tags = MapErase(MapErase(@, "error.message"), "error.type")]
  ELSE [data EXCEPT !.error = is_error]

\* Span::set_error_message, set_error_type and set_error_stack, which differ
\* in the tag they assign.
set_error_text(data, tag, text) ==
  [data EXCEPT !.error = TRUE, !.tags = MapSet(@, tag, text)]

\* The names and values the application calls the tag operations with.
TagNames == {"team", "_dd", "_dd.p.dm", "error.message", "error.stack"}
TagValues == {"a", "b"}

\* One call on the Span: the operation is recorded and works on data_.
Called(op, data) ==
  /\ Len(tag_ops) < MaxTagOps
  /\ tag_ops' = Append(tag_ops, op)
  /\ data_' = data
  /\ UNCHANGED <<tracing, moved_from, baggage, url>>

DoSetTag ==
  \E name \in TagNames, value \in TagValues :
    /\ Called([op |-> "set_tag", name |-> name, value |-> value],
              set_tag(data_, name, value))
    /\ UNCHANGED found

DoRemoveTag ==
  \E name \in TagNames :
    /\ Called([op |-> "remove_tag", name |-> name], remove_tag(data_, name))
    /\ UNCHANGED found

DoLookupTag ==
  \E name \in TagNames :
    /\ Called([op |-> "lookup_tag", name |-> name], data_)
    /\ found' = Some([name |-> name, value |-> lookup_tag(data_, name)])

DoSetError ==
  \E is_error \in BOOLEAN :
    /\ Called([op |-> "set_error", is_error |-> is_error], set_error(data_, is_error))
    /\ UNCHANGED found

DoSetErrorText ==
  \E tag \in {"error.message", "error.type", "error.stack"} :
    /\ Called([op |-> "set_error_text", name |-> tag, value |-> "e"],
              set_error_text(data_, tag, "e"))
    /\ UNCHANGED found

TagNext ==
  \/ DoSetTag
  \/ DoRemoveTag
  \/ DoLookupTag
  \/ DoSetError
  \/ DoSetErrorText

TagInit ==
  /\ Init
  /\ cfg.injection_styles = <<"NONE">>

TagSpec == TagInit /\ [][TagNext]_vars

(***************************************************************************)
(* Trace context propagation as functions of the request: the headers of   *)
(* the request are drawn from Requests, and the extraction functions are   *)
(* applied to them.                                                        *)
(***************************************************************************)
\* "traceparent" values: well-formed ones of this and of a later version,
\* with zero ids, ids with bits in the upper and in the lower half, flags,
\* surrounding whitespace and further fields; version "ff" and a version
\* that is no number; a missing field; characters after the flags.
Traceparents ==
  LET trace_ids == {Zeroes(32), Zeroes(31) \o "5",
                    Zeroes(15) \o "1" \o Zeroes(15) \o "2",
                    Zeroes(15) \o "7" \o Zeroes(16)}
      parent_ids == {Zeroes(16), Zeroes(15) \o "7", Zeroes(14) \o "a1"}
  IN { version \o "-" \o trace_id \o "-" \o parent_id \o "-" \o flags \o rest :
         version \in {"00", " 01"}, trace_id \in trace_ids,
         parent_id \in parent_ids, flags \in {"00", "01", "03"},
         rest \in {"", "-x1 "} }
       \cup
     { version \o "-" \o trace_id \o "-" \o parent_id \o "-01" :
         version \in {"ff", "0G"}, trace_id \in trace_ids, parent_id \in parent_ids }
       \cup
     {"00-" \o Zeroes(31) \o "5-01",
      "00-" \o Zeroes(31) \o "5-" \o Zeroes(15) \o "7-01x"}

Tracestates ==
  {"dd=s:2;o:rum;t.dm:-4", "foo=1, dd=s:-1;x:y;t.usr.id:a~b ,bar=2", "foo=1", " "}

\* The Datadog headers of a request: none; a sampled trace with an origin;
\* a trace without a priority whose id has upper bits; a dropped trace with a
\* tag to drop and whitespace around the ids; tags too large to be injected;
\* an id that is no number; tags that cannot be decoded; a malformed
\* "_dd.p.tid".
DatadogHeaders ==
  LET ids(trace_id, parent_id) ==
        MapSet(MapSet(EmptyMap, "x-datadog-trace-id", trace_id),
               "x-datadog-parent-id", parent_id)
  IN { EmptyMap,
       MapSet(MapSet(MapSet(ids("2", "7"), "x-datadog-sampling-priority", "2"),
                     "x-datadog-origin", "rum"),
              "x-datadog-tags", "_dd.p.dm=-4"),
       MapSet(ids("2", "7"), "x-datadog-tags", "_dd.p.tid=0000000000000001"),
       MapSet(MapSet(ids(" 5", "161 "), "x-datadog-sampling-priority", "-1"),
              "x-datadog-tags", "_dd.p.usr.id=a=b,x=y"),
       MapSet(MapSet(ids("2", "7"), "x-datadog-sampling-priority", "1"),
              "x-datadog-tags", "_dd.p.dm=-4,_dd.p.tid=0000000000000001"),
       MapSet(ids("0x2", "7"), "x-datadog-sampling-priority", "1"),
       MapSet(MapSet(ids("2", "7"), "x-datadog-sampling-priority", "0"),
              "x-datadog-tags", "_dd.p.dm"),
       MapSet(MapSet(ids("5", "7"), "x-datadog-sampling-priority", "1"),
              "x-datadog-tags", "_dd.p.tid=1") }

\* The headers of a request: each header is present or absent.  The Datadog
\* headers come alone or with W3C headers of the same or of another trace.
Requests ==
  LET header(name, values) == {EmptyMap} \cup {MapSet(EmptyMap, name, v) : v \in values}
  IN { MapInsertAll(traceparent, tracestate) :
         traceparent \in header("traceparent", Traceparents),
         tracestate \in header("tracestate", Tracestates) }
       \cup
     { MapInsertAll(datadog, MapInsertAll(traceparent, tracestate)) :
         datadog \in DatadogHeaders,
         traceparent \in header("traceparent",
                                {"00-" \o Zeroes(15) \o "1" \o Zeroes(15) \o "2-"
                                   \o Zeroes(15) \o "7-01",
                                 "00-" \o Zeroes(31) \o "5-" \o Zeroes(14) \o "a1-00"}),
         tracestate \in header("tracestate",
                               {"dd=s:2;o:rum;t.dm:-4",
                                "foo=1, dd=s:-1;x:y;t.usr.id:a~b ,bar=2"}) }

PropagationInit ==
  /\ InitSegment
  /\ InitApart
  /\ cfg.injection_styles = <<"NONE">>
  /\ request \in Requests
  /\ extracted = nullopt
  /\ styles = <<>>
  /\ context = nullopt
  /\ injected = nullopt
  /\ reextracted = nullopt
  /\ given = [what |-> "nothing"]
  /\ style_extracted = nullopt
  /\ merging = nullopt
  /\ merge_result = nullopt

\* extract_w3c(headers, span_tags, logger) for a span without tags
ExtractW3C ==
  /\ extracted = nullopt
  /\ extracted' = Some(extract_w3c(request, EmptyMap))
  /\ UNCHANGED <<cfg, segment, handle, pc, locals, history, request, styles,
                 context, injected, reextracted, extraction>>

\* The styles a tracer is configured with, for extraction and for injection.
EnabledStyles ==
  {<<"DATADOG">>, <<"W3C">>, <<"DATADOG", "W3C">>, <<"W3C", "DATADOG">>}

\* The ids the id generator returns.
GeneratedIds == {9, 161}

\* The span a tracer makes of a request: the merged context, the span, whose
\* parent is the extracted parent and whose id is `generated`, and the
\* arguments its segment is constructed with.  A request without a trace id
\* starts a trace, whose id is the id of its root span.
extract_or_create_span(enabled, headers, generated) ==
  LET span_of(merged) ==
        [merged |-> merged,
         span |-> SpanData(IF merged.trace_id # nullopt THEN merged.trace_id[1].low
                           ELSE generated,
                           generated,
                           IF merged.parent_id # nullopt THEN merged.parent_id[1] ELSE 0),
         config |->
           [ConstructorArguments(enabled, merged.origin, nullopt,
                                 IF merged.sampling_priority # nullopt
                                 THEN Some(ExtractedDecision(merged.sampling_priority[1]))
                                 ELSE nullopt,
                                 TagsMap(merged.trace_tags))
              EXCEPT !.tags_header_max_size = 30,
                     !.full_w3c_trace_id_hex = merged.full_w3c_trace_id_hex,
                     !.additional_w3c_tracestate = merged.additional_w3c_tracestate,
                     !.additional_datadog_w3c_tracestate =
                        merged.additional_datadog_w3c_tracestate]]
  IN span_of(extract_and_merge(enabled, headers))

\* A tracer with some styles enabled makes a span of the request.
ExtractSpan ==
  /\ context = nullopt
  /\ \E enabled \in EnabledStyles, generated \in GeneratedIds :
       /\ styles' = enabled
       /\ context' = Some(extract_or_create_span(enabled, request, generated))
  /\ UNCHANGED <<cfg, segment, handle, pc, locals, history, request, extracted,
                 injected, reextracted, extraction>>

\* That span's inject, alone: the locked block (a decision is made if none
\* was extracted, priority and tags are copied), then the loop over the styles.
InjectSpan ==
  /\ context # nullopt
  /\ injected = nullopt
  /\ \E d \in SamplerDecisions :
       LET config == context[1].config
           decision == IF HasDecision(config.sampling_decision)
                       THEN config.sampling_decision[1] ELSE d
           tags == IF HasDecision(config.sampling_decision) THEN config.trace_tags
                   ELSE update_decision_maker_trace_tag(d, config.trace_tags)
       IN injected' = Some([sampling_priority |-> decision.priority,
                            trace_tags |-> tags,
                            writer |-> inject(config, context[1].span,
                                              decision.priority, tags, 1, EmptyMap)])
  /\ UNCHANGED <<cfg, segment, handle, pc, locals, history, request, extracted,
                 styles, context, reextracted, extraction>>

\* A tracer with the same styles enabled extracts from the injected headers.
Reextract ==
  /\ injected # nullopt
  /\ reextracted = nullopt
  /\ reextracted' = Some(extract_and_merge(styles, injected[1].writer))
  /\ UNCHANGED <<cfg, segment, handle, pc, locals, history, request, extracted,
                 styles, context, injected, extraction>>

PropagationNext ==
  \/ ExtractW3C
  \/ ExtractSpan
  \/ InjectSpan
  \/ Reextract

PropagationSpec == PropagationInit /\ [][PropagationNext]_vars

(***************************************************************************)
(* The extractors and merge, each applied alone.                           *)
(***************************************************************************)
\* The longest list of entries, of priorities or of tags a header is made of.
MaxParts == 3

\* The strings joined, `separator` between each two.
RECURSIVE Join(_, _)
Join(strings, separator) ==
  IF strings = <<>> THEN ""
  ELSE IF Len(strings) = 1 THEN strings[1]
  ELSE strings[1] \o separator \o Join(Tail(strings), separator)

\* The requests the extractors are applied to, each with the parts its
\* headers are put together from:
\*  - a valid traceparent, sampled or not, and a tracestate of up to MaxParts
\*    entries: entries of other vendors, empty ones, and "dd" entries with or
\*    without whitespace around them;
\*  - such a traceparent and a tracestate whose "dd" entry is a list of "s"
\*    items;
\*  - Datadog headers whose x-datadog-tags is a list of pairs, one of which
\*    may lack its "=";
\*  - Datadog or B3 headers each of which is absent, a number or no number.
ExtractionInputs ==
  LET Lists(S) == UNION {[1..n -> S] : n \in 0..MaxParts}
      traceparent(sampled) ==
        MapSet(EmptyMap, "traceparent",
               "00-" \o Zeroes(31) \o "5-" \o Zeroes(15) \o "7-0" \o to_string(sampled))
      header(name, values) == {EmptyMap} \cup {MapSet(EmptyMap, name, v) : v \in values}
      rendered(pair) == IF Len(pair) = 1 THEN pair[1] ELSE pair[1] \o "=" \o pair[2]
      tags(pairs) == Join([i \in 1..Len(pairs) |-> rendered(pairs[i])], ",")
      items(priorities) ==
        Join([i \in 1..Len(priorities) |-> "s:" \o to_string(priorities[i])], ";")
  IN { [given |-> [what |-> "tracestate", sampled |-> sampled, parts |-> entries],
        request |-> MapSet(traceparent(sampled), "tracestate", Join(entries, ","))] :
         sampled \in {0, 1},
         entries \in Lists({"a=1", "", "b", "dd=o:x",
                            " dd=o:y;p:00000000000000aa;k:v "}) \ {<<>>} }
       \cup
     { [given |-> [what |-> "priorities", sampled |-> sampled, parts |-> priorities],
        request |-> MapSet(traceparent(sampled), "tracestate", "dd=" \o items(priorities))] :
         sampled \in {0, 1}, priorities \in Lists({-1, 0, 1, 2}) }
       \cup
     { [given |-> [what |-> "tags", sampled |-> 0, parts |-> pairs],
        request |-> MapSet(MapSet(MapSet(MapSet(trace_id,
                      "x-datadog-parent-id", "7"),
                      "x-datadog-sampling-priority", "1"),
                      "x-datadog-origin", "rum"),
                      "x-datadog-tags", tags(pairs))] :
         trace_id \in header("x-datadog-trace-id", {"2"}),
         pairs \in Lists({<<"_dd.p.dm", "-4">>, <<"x", "y">>, <<"_dd.p.dm">>,
                          <<"_dd.p.tid", "0000000000000001">>,
                          <<"_dd.p.tid", "00000000000000a2">>,
                          <<"_dd.p.tid", "00000000000000AB">>,
                          <<"_dd.p.tid", "1">>,
                          <<"_dd.p.tid", "000000000000000g">>}) }
       \cup
     { [given |-> [what |-> "ids", sampled |-> 0, parts |-> <<>>],
        request |-> MapInsertAll(MapInsertAll(MapInsertAll(trace_id, parent_id),
                                              priority), tags_header)] :
         trace_id \in header("x-datadog-trace-id", {"2", "0x2"}),
         parent_id \in header("x-datadog-parent-id", {" 7", "seven"}),
         priority \in header("x-datadog-sampling-priority", {"-1", "keep"}),
         tags_header \in header("x-datadog-tags", {"_dd.p.dm"}) }
       \cup
     { [given |-> [what |-> "ids", sampled |-> 0, parts |-> <<>>],
        request |-> MapInsertAll(MapInsertAll(trace_id, parent_id), priority)] :
         trace_id \in header("x-b3-traceid", {Zeroes(15) \o "1" \o Zeroes(15) \o "2",
                                              "5", "5z"}),
         parent_id \in header("x-b3-spanid", {"a1 ", "-1"}),
         priority \in header("x-b3-sampled", {"1", "d"}) }

\* A context as a style extracted it.  headers_examined is what the caller of
\* the extractor copied from the AuditedReader.
Context(trace_id, parent_id, datadog_w3c_parent_id, tracestate, headers_examined) ==
  [ExtractedData EXCEPT
     !.trace_id = Some(TraceID(trace_id)),
     !.parent_id = parent_id,
     !.datadog_w3c_parent_id = datadog_w3c_parent_id,
     !.additional_w3c_tracestate = tracestate,
     !.additional_datadog_w3c_tracestate =
        IF tracestate = nullopt THEN nullopt ELSE Some("k:v"),
     !.headers_examined = headers_examined]

\* The arguments of merge: the contexts of the enabled styles, and the first
\* of the styles whose context has a trace id.
Mergings ==
  LET option(S) == {nullopt} \cup {Some(c) : c \in S}
      w3cs == option({Context(trace_id, Some(parent_id), parent, tracestate,
                              <<<<"traceparent",
                                  "00-" \o Zeroes(31) \o to_string(trace_id) \o "-"
                                    \o Zeroes(15) \o to_string(parent_id) \o "-01">>>>) :
                        trace_id \in {2, 5}, parent_id \in {7, 9},
                        parent \in {nullopt, Some(Zeroes(16)),
                                    Some("00000000000000aa")},
                        tracestate \in {nullopt, Some("foo=1")}})
      datadogs == option({Context(trace_id, parent_id, nullopt, nullopt,
                                  <<<<"x-datadog-trace-id", to_string(trace_id)>>>>) :
                            trace_id \in {2, 5}, parent_id \in {nullopt, Some(7), Some(161)}})
      b3s == option({Context(2, Some(7), nullopt, nullopt, <<<<"x-b3-traceid", "2">>>>)})
      contexts(w3c, datadog, b3) ==
        LET chosen == [style \in {"W3C", "DATADOG", "B3"} |->
                         IF style = "W3C" THEN w3c
                         ELSE IF style = "DATADOG" THEN datadog ELSE b3]
        IN [style \in {x \in DOMAIN chosen : chosen[x] # nullopt} |-> chosen[style][1]]
      calls(c) == {[first_style |-> first_style, contexts |-> c] :
                     first_style \in DOMAIN c}
  IN UNION {calls(contexts(w3c, datadog, b3)) :
              w3c \in w3cs, datadog \in datadogs, b3 \in b3s}

ExtractionInit ==
  /\ InitSegment
  /\ InitApart
  /\ cfg.injection_styles = <<"NONE">>
  /\ extracted = nullopt
  /\ styles = <<>>
  /\ context = nullopt
  /\ injected = nullopt
  /\ reextracted = nullopt
  /\ style_extracted = nullopt
  /\ merge_result = nullopt
  /\ \/ /\ \E input \in ExtractionInputs : /\ given = input.given
                                            /\ request = input.request
        /\ merging = nullopt
     \/ /\ given = [what |-> "nothing"]
        /\ request = EmptyMap
        /\ \E arguments \in Mergings : merging = Some(arguments)

\* extract_datadog or extract_b3 (headers, span_tags, logger) for a span
\* without tags
ExtractStyle ==
  /\ style_extracted = nullopt
  /\ \E style \in {"DATADOG", "B3"} :
       style_extracted' =
         Some([style |-> style,
               extraction |-> IF style = "DATADOG" THEN extract_datadog(request, EmptyMap)
                              ELSE extract_b3(request, EmptyMap)])
  /\ UNCHANGED <<cfg, segment, handle, pc, locals, history, request, extracted,
                 styles, context, injected, reextracted, given, merging, merge_result,
                 apart>>

\* merge(first_style, contexts)
Merge ==
  /\ merging # nullopt
  /\ merge_result = nullopt
  /\ merge_result' = Some(merge(merging[1].first_style, merging[1].contexts))
  /\ UNCHANGED <<cfg, segment, handle, pc, locals, history, request, extracted,
                 styles, context, injected, reextracted, given, style_extracted,
                 merging, apart>>

ExtractionNext ==
  \/ ExtractW3C
  \/ ExtractStyle
  \/ Merge

ExtractionSpec == ExtractionInit /\ [][ExtractionNext]_vars

(***************************************************************************)
(* Baggage::extract.                                                       *)
(***************************************************************************)
\* A trim that leaves the spaces at the end.
RECURSIVE trim_front(_)
trim_front(str) ==
  IF str = "" THEN ""
  ELSE IF Char(str, 1) = " " THEN trim_front(Tail(str)) ELSE str

\* trim: str from its first to its last character that is not a space.
RECURSIVE trim(_)
trim(str) ==
  IF str = "" THEN ""
  ELSE IF Char(str, 1) = " " THEN trim(Tail(str))
  ELSE IF Char(str, Len(str)) = " " THEN trim(SubSeq(str, 1, Len(str) - 1))
  ELSE str

\* parse_baggage: std::getline gives the text up to the next ',' or to the
\* end, and nothing when the stream is at its end.
parse_baggage(input) ==
  LET RECURSIVE getline(_, _)
      entry(result, pair, equalPos) ==
        IF equalPos > Len(pair) THEN result
        ELSE IF trim(SubSeq(pair, 1, equalPos - 1)) = "" THEN result
        ELSE MapSet(result, trim(SubSeq(pair, 1, equalPos - 1)),
                    trim(SubSeq(pair, equalPos + 1, Len(pair))))
      split(ss, result, comma) ==
        getline(IF comma > Len(ss) THEN "" ELSE SubSeq(ss, comma + 1, Len(ss)),
                entry(result, SubSeq(ss, 1, comma - 1),
                      Find(SubSeq(ss, 1, comma - 1), "=")))
      getline(ss, result) ==
        IF ss = "" THEN result ELSE split(ss, result, Find(ss, ","))
  IN getline(input, EmptyMap)

\* An extract for which a missing header is an empty baggage.
Baggage_extract_or_empty(headers) ==
  IF "baggage" \notin DOMAIN headers
  THEN [error |-> nullopt, value |-> Some(EmptyMap)]
  ELSE [error |-> nullopt, value |-> Some(parse_baggage(headers["baggage"]))]

\* Baggage::extract: an Expected<Baggage>, the Error or the Baggage's map.
Baggage_extract(headers) ==
  IF "baggage" \notin DOMAIN headers
  THEN [error |-> Some("MISSING_BAGGAGE_HEADER"), value |-> nullopt]
  ELSE [error |-> nullopt, value |-> Some(parse_baggage(headers["baggage"]))]

\* The elements baggage headers are put together from.  One with '=' is
\* spaces, a key, spaces, '=', spaces, a value, spaces, where key and value
\* neither begin nor end with a space; one without is its text.
BaggageElements ==
  { [parts |-> <<"", "k", "", "", "v", "">>],
    [parts |-> <<"  ", "k", " ", " ", "w", "  ">>],
    [parts |-> <<"", "k f", "", " ", "v;a=b", "">>],
    [parts |-> <<" ", "", "", "", "v", "">>],
    [parts |-> <<"", "j", " ", "", "", "">>],
    [text |-> ""], [text |-> " x "] }

\* The text of an element.
ElementText(element) ==
  IF "text" \in DOMAIN element THEN element.text
  ELSE element.parts[1] \o element.parts[2] \o element.parts[3] \o "="
         \o element.parts[4] \o element.parts[5] \o element.parts[6]

\* A reader without the header, or with one of up to MaxParts elements.
BaggageInit ==
  /\ InitSegment
  /\ InitApart
  /\ cfg.injection_styles = <<"NONE">>
  /\ extracted = nullopt
  /\ styles = <<>>
  /\ context = nullopt
  /\ injected = nullopt
  /\ reextracted = nullopt
  /\ style_extracted = nullopt
  /\ merging = nullopt
  /\ merge_result = nullopt
  /\ \/ given = [what |-> "no baggage"] /\ request = EmptyMap
     \/ \E n \in 0..MaxParts : \E elements \in [1..n -> BaggageElements] :
          /\ given = [what |-> "baggage", elements |-> elements]
          /\ request = MapSet(EmptyMap, "baggage",
                              Join([i \in 1..n |-> ElementText(elements[i])], ","))

ExtractBaggage ==
  /\ baggage = nullopt
  /\ baggage' = Some(Baggage_extract(request))
  /\ UNCHANGED <<tracing, moved_from, tagging, url>>

BaggageSpec == BaggageInit /\ [][ExtractBaggage]_vars

(***************************************************************************)
(* DatadogAgentConfig::parse.                                              *)
(***************************************************************************)
\* A list of schemes without the plain unix one.
supported_with_http == {"http", "https", "http+unix", "https+unix"}

\* const std::string_view supported[]
supported == {"http", "https", "unix", "http+unix", "https+unix"}

\* DatadogAgentConfig::parse: the Error's code or the HTTPClient::URL.
DatadogAgentConfig_parse(input) ==
  LET separator == "://"
      at == {i \in 1..(Len(input) - 2) : SubSeq(input, i, i + 2) = separator}
      error(code) == [error |-> Some(code), url |-> nullopt]
      URL(scheme, authority, path) ==
        [error |-> nullopt,
         url |-> Some([scheme |-> scheme, authority |-> authority, path |-> path])]
      split(scheme, authority_and_path, after_authority) ==
        URL(scheme, SubSeq(authority_and_path, 1, after_authority - 1),
            SubSeq(authority_and_path, after_authority, Len(authority_and_path)))
      rest(scheme, authority_and_path) ==
        IF scheme \notin supported THEN error("URL_UNSUPPORTED_SCHEME")
        ELSE IF scheme \in {"unix", "http+unix", "https+unix"}
             THEN IF authority_and_path = "" \/ Char(authority_and_path, 1) # "/"
                  THEN error("URL_UNIX_DOMAIN_SOCKET_PATH_NOT_ABSOLUTE")
                  ELSE URL(scheme, authority_and_path, "")
             ELSE split(scheme, authority_and_path, Find(authority_and_path, "/"))
      after(after_scheme) ==
        rest(SubSeq(input, 1, after_scheme - 1),
             SubSeq(input, after_scheme + 3, Len(input)))
  IN IF at = {} THEN error("URL_MISSING_SEPARATOR")
     ELSE after(CHOOSE i \in at : \A j \in at : i <= j)

\* An input put together from up to MaxParts pieces, none of which but the
\* separator ends in ':' or contains "//".
ConfigInit ==
  /\ InitSegment
  /\ InitApart
  /\ cfg.injection_styles = <<"NONE">>
  /\ request = EmptyMap
  /\ extracted = nullopt
  /\ styles = <<>>
  /\ context = nullopt
  /\ injected = nullopt
  /\ reextracted = nullopt
  /\ style_extracted = nullopt
  /\ merging = nullopt
  /\ merge_result = nullopt
  /\ \E n \in 0..MaxParts :
       \E pieces \in [1..n -> {"http", "https", "unix", "http+unix", "https+unix",
                               "ftp", "", "://", "/run/s", "h:8", "h:8/run/s"}] :
         given = [what |-> "url", pieces |-> pieces, input |-> Join(pieces, "")]

Parse ==
  /\ url = nullopt
  /\ url' = Some(DatadogAgentConfig_parse(given.input))
  /\ UNCHANGED <<tracing, moved_from, tagging, baggage>>

ConfigSpec == ConfigInit /\ [][Parse]_vars

(***************************************************************************)
(* Properties.                                                             *)
(***************************************************************************)
\* Every handle is destroyed and every operation has returned.
Quiescent ==
  /\ \A s \in 1..MaxSpans : handle[s] = NoThread
  /\ \A t \in Threads : pc[t] = "idle"

\* C1: under every interleaving of create_child and span destruction,
\* Collector::send is invoked exactly once: by the span_finished call that
\* makes num_finished_spans_ equal to the number of registered spans, when
\* every registered span has finished, and never a second time.
C1_SendExactlyOnce ==
  [][/\ \A t \in Threads :
          (pc[t] = "span_finished" /\ pc'[t] = "finalize_decision")
            <=> (pc[t] = "span_finished" /\ pc'[t] # pc[t]
                   /\ num_finished_spans_' = Len(spans_'))
     /\ Len(sent') > Len(sent) =>
          /\ sent = <<>>
          /\ num_finished_spans_ = Len(spans_)
          /\ \A s \in 1..MaxSpans : handle[s] = NoThread
          /\ Cardinality({t \in Threads : pc[t] # "idle"}) = 1
     /\ Quiescent' => Len(sent') = 1]_vars

\* Thread 2, which got the child's handle from thread 1, finished last and
\* handed both spans to the collector.
C1_Witness ==
  /\ pc[2] = "log_send_error"
  /\ Len(sent) = 1
  /\ Len(sent[1].spans) = 2

C3_DecideAtMostOnce ==
  [][decide_calls' # decide_calls =>
       /\ sampling_decision_ = nullopt
       /\ decide_calls = 0
       /\ decide_calls' = 1]_vars

\* The sampler decided, the priority was overridden, the segment was sent.
C3_Witness ==
  /\ decide_calls = 1
  /\ last_override # nullopt
  /\ sent # <<>>

IsManual(decision, priority) ==
  /\ decision # nullopt
  /\ decision[1].priority = priority
  /\ decision[1].mechanism = Some(SamplingMechanism.MANUAL)
  /\ decision[1].origin = "LOCAL"

\* C4: once override_sampling_priority(p) has written its decision, the
\* segment's decision is (p, MANUAL, LOCAL) until the next override: it is
\* what sampling_decision() returns, what inject copies and what finalization
\* reports on the root span.
C4_ManualDecisionStays ==
  [][last_override' # nullopt =>
       /\ IsManual(sampling_decision_', last_override'[1])
       /\ \A t \in Threads :
            /\ (pc[t] = "sampling_decision" /\ pc'[t] # pc[t])
                 => IsManual(observed'[t], last_override'[1])
            /\ (pc[t] = "inject_snapshot" /\ pc'[t] # pc[t])
                 => sampling_priority'[t] = last_override'[1]
            /\ (pc[t] = "finalize_spans" /\ pc'[t] # pc[t])
                 => spans_'[1].numeric_tags["_sampling_priority_v1"] = last_override'[1]]_vars

\* A segment constructed with an extracted decision: after an override,
\* sampling_decision() returns the manual decision.
C4_Witness ==
  /\ cfg.sampling_decision # nullopt
  /\ \E t \in Threads :
       /\ pc[t] = "sampling_decision_return"
       /\ IsManual(observed[t], -1)

\* "_dd.p.dm" is in the tags iff the priority is > 0, and is "-" followed by
\* the mechanism.
DecisionMakerMatches(decision, tags) ==
  IF decision # nullopt /\ decision[1].priority > 0
  THEN /\ decision_maker \in DOMAIN tags
       /\ decision[1].mechanism # nullopt
       /\ tags[decision_maker] = "-" \o to_string_nat(decision[1].mechanism[1])
  ELSE decision_maker \notin DOMAIN tags

\* C5: after every override_sampling_priority and after every sampler
\* decision made by inject or by finalization, trace_tags_ has "_dd.p.dm"
\* equal to "-" + mechanism if the priority is > 0, and lacks it otherwise.
C5_DecisionMakerAfterDecision ==
  [][(\/ decide_calls' # decide_calls
      \/ \E t \in Threads : pc[t] = "override" /\ pc'[t] # pc[t])
       => /\ sampling_decision_' # nullopt
          /\ DecisionMakerMatches(sampling_decision_', trace_tags_')]_vars

\* inject made the sampler decide to keep the trace by a rule.
C5_Witness ==
  /\ decide_calls = 1
  /\ \E t \in Threads : pc[t] = "inject_style"
  /\ decision_maker \in DOMAIN trace_tags_
  /\ trace_tags_[decision_maker] = "-3"
  /\ cfg.sampling_decision = nullopt

ProtectedAccesses(t) ==
  LET deciding == IF sampling_decision_ = nullopt
                  THEN {<<"sampling_decision_", "w">>, <<"trace_tags_", "w">>,
                        <<"spans_", "r">>}
                  ELSE {<<"sampling_decision_", "r">>}
  IN CASE pc[t] = "register_span" ->
            {<<"num_finished_spans_", "r">>, <<"spans_", "w">>}
       [] pc[t] = "span_finished" ->
            {<<"num_finished_spans_", "w">>, <<"spans_", "r">>}
       [] pc[t] = "finalize_decision" -> deciding
       [] pc[t] = "finalize_spans" ->
            {<<"sampling_decision_", "r">>, <<"trace_tags_", "r">>, <<"spans_", "r">>}
       [] pc[t] = "send" -> {<<"spans_", "w">>}
       [] pc[t] = "override" ->
            {<<"sampling_decision_", "w">>, <<"trace_tags_", "w">>}
       [] pc[t] = "sampling_decision" -> {<<"sampling_decision_", "r">>}
       [] pc[t] = "inject_snapshot" -> deciding \cup {<<"trace_tags_", "r">>}
       [] pc[t] = "inject_style" ->
            IF /\ style_i[t] <= Len(cfg.injection_styles)
               /\ cfg.injection_styles[style_i[t]] \in {"DATADOG", "B3"}
            THEN {<<"spans_", "r">>}
            ELSE {}
       [] OTHER -> {}

\* C7: no thread reads or writes the span vector, the finished counter, the
\* sampling decision or the trace tags while another thread writes the same
\* field, unless the accessing thread holds the mutex (which the writer then
\* cannot hold: two threads never access the same field at once, one of
\* them writing).
C7_NoDataRace ==
  \A t \in Threads : \A u \in Threads \ {t} :
    \A a \in ProtectedAccesses(t) : \A b \in ProtectedAccesses(u) :
      (a[1] = b[1] /\ b[2] = "w") => (mutex_ = t /\ mutex_ = u)

\* The spans whose SpanData thread t's next step writes, before finalization.
SpanDataWritten(t) ==
  CASE pc[t] = "set_tag" -> {self[t]}
    [] pc[t] = "inject_oversize" -> {1}
    [] OTHER -> {}

\* C8: the SpanData of a span is written only through that span's own
\* handle, so no two threads write the same SpanData at once.
C8_NoConcurrentSpanDataWrite ==
  \A t \in Threads : \A u \in Threads \ {t} :
    SpanDataWritten(t) \cap SpanDataWritten(u) = {}

\* C9: the mutex is not held by the caller when Collector::send or
\* Logger::log_error is called, in span_finished and in inject.
C9_NoLockAcrossCalls ==
  /\ \A i \in 1..Len(sent) : ~sent[i].locked
  /\ \A i \in 1..Len(logged) : ~logged[i].locked

\* inject logged an oversized header, the collector returned an error and the
\* error was logged.
C9_Witness ==
  /\ Len(sent) = 1
  /\ \E i \in 1..Len(logged) :
       logged[i].message = "Error sending spans to collector: "
  /\ \E i \in 1..Len(logged) :
       logged[i].message = "Serialized x-datadog-tags header value is too large."

\* The priorities a sampling decision can have.
Priorities == {-1, 0, 1, 2}

\* The headers w, written through the handle of span, carry priority p and
\* the trace tags m.
HeadersCarry(w, span, p, m) ==
  /\ "x-datadog-sampling-priority" \in DOMAIN w
       => w["x-datadog-sampling-priority"] = to_string(p)
  /\ "x-b3-sampled" \in DOMAIN w
       => w["x-b3-sampled"] = (IF p > 0 THEN "1" ELSE "0")
  /\ "traceparent" \in DOMAIN w
       => w["traceparent"] =
            encode_traceparent(span.trace_id, cfg.full_w3c_trace_id_hex,
                               span.span_id, p)
  /\ "tracestate" \in DOMAIN w
       => w["tracestate"] =
            encode_tracestate(p, cfg.origin, m,
                              cfg.additional_datadog_w3c_tracestate,
                              cfg.additional_w3c_tracestate)
  /\ "x-datadog-tags" \in DOMAIN w => w["x-datadog-tags"] = encode_tags(m)

\* Thread t is in the loop of inject, after the locked block.
Injecting(t) == pc[t] \in {"inject_style", "inject_oversize"}

SpanIds == [i \in 1..Len(spans_) |-> spans_[i].span_id]

\* C11: the span sampler is consulted exactly when the final priority of the
\* trace is at most 0: SpanSampler::match is then called once with every span
\* of the segment, after the sampling decision exists and before the spans
\* are handed to the collector; when the priority is positive it is called
\* with no span.
C11_SpanSamplerIffDropped ==
  [][/\ matched' # matched =>
          /\ \E t \in Threads : pc[t] = "finalize_spans" /\ pc'[t] = "send"
          /\ sampling_decision_ # nullopt
          /\ sent = <<>> /\ sent' = <<>>
     /\ \A t \in Threads :
          pc[t] = "finalize_spans" /\ pc'[t] = "send" =>
            /\ sampling_decision_ # nullopt
            /\ sampling_decision_' = sampling_decision_
            /\ matched = <<>>
            /\ matched' = IF sampling_decision_[1].priority <= 0
                          THEN SpanIds ELSE <<>>
     /\ Len(sent') > Len(sent) =>
          /\ sampling_decision_ # nullopt
          /\ matched' = matched
          /\ matched = IF sampling_decision_[1].priority <= 0
                       THEN [i \in 1..Len(sent'[1].spans) |->
                               sent'[1].spans[i].span_id]
                       ELSE <<>>]_vars

\* A dropped trace of three spans was sent after the span sampler saw each of
\* them once, in registration order.
C11_Witness ==
  /\ Len(sent) = 1 /\ Len(sent[1].spans) = 3
  /\ sampling_decision_ # nullopt /\ sampling_decision_[1].priority = 0
  /\ matched = <<1, 2, 3>>

\* C12: when the trace is dropped (final priority at most 0), the batch handed
\* to Collector::send holds every registered span, in registration order with
\* the local root first, and a span carries "_dd.span_sampling.mechanism"
\* exactly when a span rule matched it and the rule's decision has a positive
\* priority.
C12_DroppedBatch ==
  (sent # <<>> /\ sampling_decision_ # nullopt
     /\ sampling_decision_[1].priority <= 0) =>
    LET batch == sent[1].spans
    IN /\ Len(batch) = num_finished_spans_
       /\ batch[1].parent_id = 0
       /\ \A i \in 1..Len(batch) :
            /\ batch[i].span_id = i
            /\ "_dd.span_sampling.mechanism" \in DOMAIN batch[i].numeric_tags
                 <=> /\ SpanRuleOutcome(batch[i]) # nullopt
                     /\ SpanRuleOutcome(batch[i])[1].priority > 0

\* A dropped trace of three spans: no rule matches the root, the rule
\* matching span 2 keeps it, the rule matching span 3 does not.
C12_Witness ==
  /\ Len(sent) = 1 /\ Len(sent[1].spans) = 3
  /\ sampling_decision_ # nullopt /\ sampling_decision_[1].priority <= 0
  /\ "_dd.span_sampling.mechanism" \in DOMAIN sent[1].spans[2].numeric_tags
  /\ "_dd.span_sampling.mechanism" \notin DOMAIN sent[1].spans[3].numeric_tags
  /\ SpanRuleOutcome(sent[1].spans[3]) # nullopt

\* C13: at finalization the root span gets "_dd.agent_psr" exactly when the
\* decision is LOCAL with mechanism AGENT_RATE or DEFAULT, "_dd.rule_psr"
\* exactly when it is LOCAL with mechanism RULE, "_dd.limit_psr" only with
\* "_dd.rule_psr" and a recorded limiter effective rate, and none of the
\* three when the decision is MANUAL or EXTRACTED.
C13_RootRateTags ==
  (sent # <<>> /\ sampling_decision_ # nullopt) =>
    LET decision == sampling_decision_[1]
        root == sent[1].spans[1].numeric_tags
        by_agent == /\ decision.origin = "LOCAL"
                    /\ decision.mechanism \in {Some(SamplingMechanism.AGENT_RATE),
                                                Some(SamplingMechanism.DEFAULT)}
        by_rule == /\ decision.origin = "LOCAL"
                   /\ decision.mechanism = Some(SamplingMechanism.RULE)
    IN /\ "_dd.agent_psr" \in DOMAIN root <=> by_agent
       /\ by_agent => root["_dd.agent_psr"] = decision.configured_rate[1]
       /\ "_dd.rule_psr" \in DOMAIN root <=> by_rule
       /\ by_rule => root["_dd.rule_psr"] = decision.configured_rate[1]
       /\ "_dd.limit_psr" \in DOMAIN root
            <=> by_rule /\ decision.limiter_effective_rate # nullopt
       /\ (\/ decision.mechanism = Some(SamplingMechanism.MANUAL)
           \/ decision.origin = "EXTRACTED") =>
            {"_dd.agent_psr", "_dd.rule_psr", "_dd.limit_psr"} \cap DOMAIN root = {}

\* A trace decided by a sampling rule with a limiter was sent: its root
\* carries the rule's rate and the limiter's effective rate.
C13_Witness ==
  /\ sent # <<>> /\ sampling_decision_ # nullopt
  /\ sampling_decision_[1].mechanism = Some(SamplingMechanism.RULE)
  /\ {"_dd.rule_psr", "_dd.limit_psr"} \subseteq DOMAIN sent[1].spans[1].numeric_tags
  /\ "_dd.agent_psr" \notin DOMAIN sent[1].spans[1].numeric_tags

\* C14: when Collector::send returns an error, the error is logged once with
\* the prefix "Error sending spans to collector: " and goes no further:
\* span_finished returns normally and send is not called again.  Without an
\* error nothing with that prefix is logged.
C14_SendErrorLoggedOnce ==
  [][/\ \A t \in Threads :
          /\ (pc[t] = "send" /\ pc'[t] # "send") =>
               /\ Len(sent') = 1
               /\ pc'[t] = IF sent'[1].error THEN "log_send_error" ELSE "idle"
               /\ logged' = logged
          /\ (pc[t] = "log_send_error" /\ pc'[t] # "log_send_error") =>
               /\ pc'[t] = "idle"
               /\ sent' = sent
               /\ ~crashed'
               /\ Len(logged') = Len(logged) + 1
               /\ logged'[Len(logged')].message = "Error sending spans to collector: "
     /\ Quiescent' =>
          /\ Len(sent') = 1
          /\ Cardinality({i \in 1..Len(logged') :
                            logged'[i].message = "Error sending spans to collector: "})
               = IF sent'[1].error THEN 1 ELSE 0]_vars

\* The collector returned an error; it was logged and every call returned.
C14_Witness ==
  /\ Quiescent
  /\ Len(sent) = 1 /\ sent[1].error
  /\ \E i \in 1..Len(logged) :
       logged[i].message = "Error sending spans to collector: "

\* C15: if the segment's only injection style is NONE, inject writes no
\* header and leaves the segment as it is: no sampling decision is made, the
\* trace tags and the spans' tags stay as they are, the lock is not taken.
\* With any other list of styles inject does not return at that test.
C15_InjectNoneDoesNothing ==
  [][/\ noop_injects' # noop_injects =>
          /\ cfg.injection_styles = <<"NONE">>
          /\ UNCHANGED <<spans_, num_finished_spans_, sampling_decision_,
                         trace_tags_, mutex_, writer, pc, decide_calls, logged>>
     /\ cfg.injection_styles = <<"NONE">> =>
          \A t \in Threads :
            /\ writer'[t] = EmptyMap
            /\ pc'[t] \notin {"inject_snapshot", "inject_style", "inject_oversize"}]_vars

\* inject was called on a segment whose only style is NONE: there is still no
\* sampling decision and nothing was written.
C15_Witness ==
  /\ noop_injects > 0
  /\ cfg.injection_styles = <<"NONE">>
  /\ sampling_decision_ = nullopt
  /\ \A t \in Threads : writer[t] = EmptyMap

C19_TraceparentFields ==
  (extracted # nullopt /\ "traceparent" \in DOMAIN request) =>
    LET traceparent == strip(request["traceparent"])
        result == extracted[1].result
    IN (/\ traceparent_regex_match(traceparent)
        /\ SubSeq(traceparent, 1, 2) # "ff"
        /\ SubSeq(traceparent, 4, 35) # Zeroes(32)
        /\ SubSeq(traceparent, 37, 52) # Zeroes(16)) =>
         /\ result.trace_id # nullopt
         /\ result.trace_id[1].high = parse_uint64(SubSeq(traceparent, 4, 19), 16)[1]
         /\ result.trace_id[1].low = parse_uint64(SubSeq(traceparent, 20, 35), 16)[1]
         /\ result.parent_id = parse_uint64(SubSeq(traceparent, 37, 52), 16)
         /\ result.sampling_priority
              = Some(parse_uint64(SubSeq(traceparent, 54, 55), 16)[1] % 2)
         /\ result.full_w3c_trace_id_hex = Some(SubSeq(traceparent, 4, 35))

\* C20: when "traceparent" is present but does not match the pattern, or has
\* version ff, or an all-zero trace id, or an all-zero parent id (tested in
\* that order), extract_w3c sets the span tag "_dd.w3c_extraction_error" to
\* "malformed_traceparent", "invalid_version", "trace_id_zero" or
\* "parent_id_zero" respectively and returns an empty context, without
\* looking "tracestate" up.  Otherwise it sets no such tag.
C20_TraceparentErrors ==
  (extracted # nullopt /\ "traceparent" \in DOMAIN request) =>
    LET traceparent == strip(request["traceparent"])
        error == IF ~traceparent_regex_match(traceparent) THEN "malformed_traceparent"
                 ELSE IF SubSeq(traceparent, 1, 2) = "ff" THEN "invalid_version"
                 ELSE IF SubSeq(traceparent, 4, 35) = Zeroes(32) THEN "trace_id_zero"
                 ELSE IF SubSeq(traceparent, 37, 52) = Zeroes(16) THEN "parent_id_zero"
                 ELSE ""
        result == extracted[1].result
    IN IF error = ""
       THEN extracted[1].span_tags = EmptyMap
       ELSE /\ DOMAIN extracted[1].span_tags = {"_dd.w3c_extraction_error"}
            /\ extracted[1].span_tags["_dd.w3c_extraction_error"] = error
            /\ result.trace_id = nullopt
            /\ result.parent_id = nullopt
            /\ result.sampling_priority = nullopt
            /\ result.full_w3c_trace_id_hex = nullopt
            /\ result.origin = nullopt
            /\ result.trace_tags = <<>>
            /\ result.additional_w3c_tracestate = nullopt
            /\ result.additional_datadog_w3c_tracestate = nullopt
            /\ extracted[1].lookups = <<"traceparent">>

\* A traceparent with a trace id but an all-zero parent id came with a
\* tracestate: the error is "parent_id_zero" and nothing was extracted.
C20_Witness ==
  /\ extracted # nullopt
  /\ "tracestate" \in DOMAIN request /\ "traceparent" \in DOMAIN request
  /\ starts_with(request["traceparent"], "00-" \o Zeroes(31) \o "5-" \o Zeroes(16))
  /\ "_dd.w3c_extraction_error" \in DOMAIN extracted[1].span_tags
  /\ extracted[1].span_tags["_dd.w3c_extraction_error"] = "parent_id_zero"
  /\ extracted[1].result.full_w3c_trace_id_hex = nullopt

\* C17: the "traceparent" header an inject writes is "00-" T "-" S "-" F, where
\* T is the segment's full_w3c_trace_id_hex if it has one and otherwise 32
\* lower-case hexadecimal digits whose value is the span's trace id, S is 16
\* lower-case hexadecimal digits whose value is the span's id, and F is "01" if
\* the injected sampling priority is positive and "00" otherwise; the header
\* matches the pattern extract_traceparent accepts.
C17_EncodeTraceparent ==
  (injected # nullopt /\ "traceparent" \in DOMAIN injected[1].writer) =>
    LET result == injected[1].writer["traceparent"]
        config == context[1].config
        span == context[1].span
        T == SubSeq(result, 4, 35)
        S == SubSeq(result, 37, 52)
    IN /\ Len(result) = 55
       /\ SubSeq(result, 1, 3) = "00-"
       /\ Char(result, 36) = "-"
       /\ Char(result, 53) = "-"
       /\ IF config.full_w3c_trace_id_hex # nullopt
          THEN T = config.full_w3c_trace_id_hex[1]
          ELSE IsDigits(T, 16) /\ parse_uint64(T, 16) = Some(span.trace_id)
       /\ IsDigits(S, 16) /\ parse_uint64(S, 16) = Some(span.span_id)
       /\ SubSeq(result, 54, 55)
            = (IF injected[1].sampling_priority > 0 THEN "01" ELSE "00")
       /\ traceparent_regex_match(result)

\* A new trace, whose id has a letter among its hexadecimal digits, was
\* sampled and injected in the W3C style.
C17_Witness ==
  /\ injected # nullopt
  /\ "traceparent" \in DOMAIN injected[1].writer
  /\ context[1].config.full_w3c_trace_id_hex = nullopt
  /\ context[1].span.trace_id = 161
  /\ injected[1].sampling_priority > 0
  /\ injected[1].writer["traceparent"]
       = "00-" \o Zeroes(30) \o "a1-" \o Zeroes(14) \o "a1-01"

C21_TracestatePriority ==
  (extracted # nullopt /\ given.what = "priorities") =>
    LET agrees(s) == (s > 0) = (given.sampled > 0)
        agreeing == {i \in 1..Len(given.parts) : agrees(given.parts[i])}
        priority == extracted[1].result.sampling_priority
    IN /\ priority # nullopt
       /\ (priority[1] > 0) = (given.sampled = 1)
       /\ priority[1] = IF agreeing = {} THEN given.sampled
                        ELSE given.parts[CHOOSE i \in agreeing :
                                           \A j \in agreeing : j <= i]

\* A sampled traceparent with "dd=s:2;s:-1": 2 was applied, -1 was not.
C21_Witness ==
  /\ extracted # nullopt
  /\ given = [what |-> "priorities", sampled |-> 1, parts |-> <<2, -1>>]
  /\ request["tracestate"] = "dd=s:2;s:-1"
  /\ extracted[1].result.sampling_priority = Some(2)

\* C22: when the "dd" entry of tracestate has an item "p:<16 hex digits>",
\* extract_w3c stores the digits in datadog_w3c_parent_id and does not append
\* the item to additional_datadog_w3c_tracestate, which holds the unknown
\* items only.
C22_DatadogParentId ==
  (extracted # nullopt /\ given.what = "tracestate") =>
    LET dds == {i \in 1..Len(given.parts) : starts_with(strip(given.parts[i]), "dd=")}
        first == given.parts[CHOOSE i \in dds : \A j \in dds : i <= j]
    IN (dds # {} /\ strip(first) = "dd=o:y;p:00000000000000aa;k:v") =>
         /\ extracted[1].result.datadog_w3c_parent_id = Some("00000000000000aa")
         /\ extracted[1].result.additional_datadog_w3c_tracestate = Some("k:v")

\* C23: of several "dd" entries of tracestate only the first one is parsed
\* (the origin is the first one's); all the other entries, the later "dd"
\* entries among them, are in additional_w3c_tracestate in the order of the
\* header.  (The header is stripped as a whole first, which takes the
\* whitespace after its last entry.)
C23_FirstDatadogEntry ==
  (extracted # nullopt /\ given.what = "tracestate") =>
    LET parts == given.parts
        dds == {i \in 1..Len(parts) : starts_with(strip(parts[i]), "dd=")}
        first == CHOOSE i \in dds : \A j \in dds : i <= j
        others == SubSeq(parts, 1, first - 1) \o SubSeq(parts, first + 1, Len(parts))
    IN (dds # {} /\ dds # {first}) =>
         /\ extracted[1].result.origin =
              Some(IF strip(parts[first]) = "dd=o:x" THEN "x" ELSE "y")
         /\ extracted[1].result.additional_w3c_tracestate =
              Some(Tail(strip("|" \o Join(others, ","))))

\* "dd=o:x,a=1, dd=o:y;p:00000000000000aa;k:v ": the origin is x, the second
\* "dd" entry is among the other entries.
C23_Witness ==
  /\ extracted # nullopt
  /\ given.what = "tracestate"
  /\ given.parts = <<"dd=o:x", "a=1", " dd=o:y;p:00000000000000aa;k:v ">>
  /\ extracted[1].result.origin = Some("x")
  /\ extracted[1].result.additional_w3c_tracestate =
       Some("a=1, dd=o:y;p:00000000000000aa;k:v")

\* C24: wherever the first "dd" entry stands among the entries of tracestate
\* (first, in the middle, last, alone) and wherever empty entries stand,
\* additional_w3c_tracestate is the entries before it and the entries after
\* it, joined by one comma where they meet, and it is unset when that is
\* empty.  (The header is stripped as a whole first, which takes the
\* whitespace after its last entry.)
C24_OtherEntries ==
  (extracted # nullopt /\ given.what = "tracestate") =>
    LET parts == given.parts
        dds == {i \in 1..Len(parts) : starts_with(strip(parts[i]), "dd=")}
        first == CHOOSE i \in dds : \A j \in dds : i <= j
        expected == Tail(strip("|" \o Join(SubSeq(parts, 1, first - 1)
                                             \o SubSeq(parts, first + 1, Len(parts)),
                                           ",")))
    IN dds # {} =>
         extracted[1].result.additional_w3c_tracestate =
           IF expected = "" THEN nullopt ELSE Some(expected)

\* "a=1,,dd=o:x": the "dd" entry is the last one, after an empty entry; what
\* remains is "a=1,".
C24_Witness ==
  /\ extracted # nullopt
  /\ given.what = "tracestate"
  /\ request["tracestate"] = "a=1,,dd=o:x"
  /\ extracted[1].result.additional_w3c_tracestate = Some("a=1,")

\* C25: when x-datadog-tags decodes, the trace tags extract_datadog returns
\* are the pairs of the header whose key starts with "_dd.p.", in the order
\* of the header, without the "_dd.p.tid" pairs whose value is not exactly 16
\* hexadecimal digits; a malformed "_dd.p.tid" sets the span tag
\* "_dd.propagation_error" to "malformed_tid <value>" (the last one if there
\* are several) and the other tags are extracted all the same.
C25_TraceTags ==
  (/\ style_extracted # nullopt
   /\ style_extracted[1].style = "DATADOG"
   /\ given.what = "tags"
   /\ \A i \in 1..Len(given.parts) : Len(given.parts[i]) = 2) =>
    LET Hex16(v) ==
          /\ Len(v) = 16
          /\ \A i \in 1..16 :
               Char(v, i) \in {"0", "1", "2", "3", "4", "5", "6", "7", "8", "9",
                               "a", "b", "c", "d", "e", "f",
                               "A", "B", "C", "D", "E", "F"}
        malformed(pair) == pair[1] = "_dd.p.tid" /\ ~Hex16(pair[2])
        kept(pair) == starts_with(pair[1], "_dd.p.") /\ ~malformed(pair)
        errors == SelectSeq(given.parts, malformed)
    IN /\ style_extracted[1].extraction.error = nullopt
       /\ style_extracted[1].extraction.result[1].trace_tags
            = SelectSeq(given.parts, kept)
       /\ style_extracted[1].extraction.span_tags =
            IF errors = <<>> THEN EmptyMap
            ELSE MapSet(EmptyMap, "_dd.propagation_error",
                        "malformed_tid " \o errors[Len(errors)][2])

\* "x=y,_dd.p.tid=1,_dd.p.dm=-4": "x" and the short "_dd.p.tid" are left out,
\* the latter is reported, "_dd.p.dm" is extracted.
C25_Witness ==
  /\ style_extracted # nullopt
  /\ style_extracted[1].style = "DATADOG"
  /\ "x-datadog-tags" \in DOMAIN request
  /\ request["x-datadog-tags"] = "x=y,_dd.p.tid=1,_dd.p.dm=-4"
  /\ style_extracted[1].extraction.result[1].trace_tags = <<<<"_dd.p.dm", "-4">>>>
  /\ style_extracted[1].extraction.span_tags
       = MapSet(EmptyMap, "_dd.propagation_error", "malformed_tid 1")

\* C26: when the context extract_datadog returns has a trace id and a
\* "_dd.p.tid" trace tag, the value of every "_dd.p.tid" trace tag is the
\* upper half of the trace id in 16 hexadecimal digits, also when the header
\* has "_dd.p.tid" twice with different values or in upper case.
C26_TraceIdHighTag ==
  (/\ style_extracted # nullopt
   /\ style_extracted[1].style = "DATADOG"
   /\ style_extracted[1].extraction.error = nullopt) =>
    LET result == style_extracted[1].extraction.result[1]
    IN result.trace_id # nullopt =>
         \A i \in 1..Len(result.trace_tags) :
           result.trace_tags[i][1] = "_dd.p.tid" =>
             result.trace_tags[i][2] = hex_padded(result.trace_id[1].high)

\* C27: when x-datadog-tags does not decode, extract_datadog returns no
\* error but the context of the other headers (trace id, parent id, sampling
\* priority, origin), without trace tags and with the upper half of the
\* trace id as it was, and sets the span tag "_dd.propagation_error" to
\* "decoding_error".
C27_DecodingError ==
  (/\ style_extracted # nullopt
   /\ style_extracted[1].style = "DATADOG"
   /\ given.what = "tags"
   /\ \E i \in 1..Len(given.parts) : Len(given.parts[i]) = 1) =>
    /\ style_extracted[1].extraction.error = nullopt
    /\ style_extracted[1].extraction.result =
         Some([ExtractedData EXCEPT
                 !.trace_id = IF "x-datadog-trace-id" \in DOMAIN request
                              THEN Some([high |-> 0, low |-> 2]) ELSE nullopt,
                 !.parent_id = Some(7),
                 !.sampling_priority = Some(1),
                 !.origin = Some("rum")])
    /\ style_extracted[1].extraction.span_tags
         = MapSet(EmptyMap, "_dd.propagation_error", "decoding_error")

\* "_dd.p.tid=0000000000000001,_dd.p.dm": the second pair has no "=", the
\* first one is not extracted either.
C27_Witness ==
  /\ style_extracted # nullopt
  /\ style_extracted[1].style = "DATADOG"
  /\ "x-datadog-tags" \in DOMAIN request
  /\ request["x-datadog-tags"] = "_dd.p.tid=0000000000000001,_dd.p.dm"
  /\ style_extracted[1].extraction.error = nullopt
  /\ style_extracted[1].extraction.result[1].trace_id = Some([high |-> 0, low |-> 2])
  /\ style_extracted[1].extraction.result[1].trace_tags = <<>>
  /\ "_dd.propagation_error" \in DOMAIN style_extracted[1].extraction.span_tags

\* C28: if x-datadog-trace-id, x-datadog-parent-id or
\* x-datadog-sampling-priority is present and does not parse, extract_datadog
\* returns an error and no context; the error is about the first of them, in
\* this order, that does not parse; the span tags are as they were, since
\* x-datadog-tags is not looked at.  The same holds of extract_b3 with
\* x-b3-traceid, x-b3-spanid and x-b3-sampled.
C28_UnparseableHeaders ==
  (style_extracted # nullopt /\ given.what = "ids") =>
    LET is(header, value) == header \in DOMAIN request /\ request[header] = value
        expected ==
          IF style_extracted[1].style = "DATADOG"
          THEN IF is("x-datadog-trace-id", "0x2")
               THEN Some("Could not extract Datadog-style traceID from "
                           \o "x-datadog-trace-id: 0x2 ")
               ELSE IF is("x-datadog-parent-id", "seven")
               THEN Some("Could not extract Datadog-style parent spanID from "
                           \o "x-datadog-parent-id: seven ")
               ELSE IF is("x-datadog-sampling-priority", "keep")
               THEN Some("Could not extract Datadog-style sampling priority from "
                           \o "x-datadog-sampling-priority: keep ")
               ELSE nullopt
          ELSE IF is("x-b3-traceid", "5z")
               THEN Some("Could not extract B3-style trace ID from \"5z\": ")
               ELSE IF is("x-b3-spanid", "-1")
               THEN Some("Could not extract B3-style parent spanID from x-b3-spanid: -1 ")
               ELSE IF is("x-b3-sampled", "d")
               THEN Some("Could not extract B3-style sampling priority from "
                           \o "x-b3-sampled: d ")
               ELSE nullopt
    IN /\ style_extracted[1].extraction.error = expected
       /\ expected # nullopt =>
            /\ style_extracted[1].extraction.result = nullopt
            /\ style_extracted[1].extraction.span_tags = EmptyMap
       /\ expected = nullopt => style_extracted[1].extraction.result # nullopt

\* The trace id parses, the parent id and the priority do not, and
\* x-datadog-tags would not decode: the error is about the parent id, and no
\* span tag is set.
C28_Witness ==
  /\ style_extracted # nullopt
  /\ style_extracted[1].style = "DATADOG"
  /\ DOMAIN request = {"x-datadog-trace-id", "x-datadog-parent-id",
                       "x-datadog-sampling-priority", "x-datadog-tags"}
  /\ request["x-datadog-trace-id"] = "2"
  /\ request["x-datadog-parent-id"] = "seven"
  /\ request["x-datadog-sampling-priority"] = "keep"
  /\ style_extracted[1].extraction.error
       = Some("Could not extract Datadog-style parent spanID from "
                \o "x-datadog-parent-id: seven ")
  /\ style_extracted[1].extraction.result = nullopt
  /\ style_extracted[1].extraction.span_tags = EmptyMap

\* C29: when merge finds a W3C context of the trace of the primary context
\* whose parent id is another one, the result has the parent id of the W3C
\* context, and its datadog_w3c_parent_id is that of the W3C context if it
\* is there and not "0000000000000000", else the parent id of the Datadog
\* context in 16 hexadecimal digits if there is a Datadog context of the
\* same trace with a parent id, else what the primary context had.  When the
\* parent ids are equal, both fields are the primary context's.
C29_MergeParentId ==
  merge_result # nullopt =>
    LET contexts == merging[1].contexts
        primary == contexts[merging[1].first_style]
        w3c == contexts["W3C"]
        datadog == contexts["DATADOG"]
        result == merge_result[1]
    IN ("W3C" \in DOMAIN contexts /\ w3c.trace_id = primary.trace_id) =>
         /\ w3c.parent_id # primary.parent_id =>
              /\ result.parent_id = w3c.parent_id
              /\ result.datadog_w3c_parent_id =
                   IF w3c.datadog_w3c_parent_id \notin {nullopt, Some("0000000000000000")}
                   THEN w3c.datadog_w3c_parent_id
                   ELSE IF /\ "DATADOG" \in DOMAIN contexts
                           /\ datadog.trace_id = primary.trace_id
                           /\ datadog.parent_id # nullopt
                   THEN IF datadog.parent_id = Some(7) THEN Some("0000000000000007")
                        ELSE Some("00000000000000a1")
                   ELSE primary.datadog_w3c_parent_id
         /\ w3c.parent_id = primary.parent_id =>
              /\ result.parent_id = primary.parent_id
              /\ result.datadog_w3c_parent_id = primary.datadog_w3c_parent_id

\* The Datadog context, the primary one, has parent 161; the W3C context of
\* the same trace has parent 7 and a "p" of zeroes: the result has parent 7
\* and the Datadog parent in hexadecimal digits.
C29_Witness ==
  /\ merge_result # nullopt
  /\ merging[1].first_style = "DATADOG"
  /\ "W3C" \in DOMAIN merging[1].contexts
  /\ merging[1].contexts["DATADOG"].trace_id = merging[1].contexts["W3C"].trace_id
  /\ merging[1].contexts["DATADOG"].parent_id = Some(161)
  /\ merging[1].contexts["W3C"].parent_id = Some(7)
  /\ merging[1].contexts["W3C"].datadog_w3c_parent_id = Some("0000000000000000")
  /\ merge_result[1].parent_id = Some(7)
  /\ merge_result[1].datadog_w3c_parent_id = Some("00000000000000a1")

\* C30: merge copies additional_w3c_tracestate and
\* additional_datadog_w3c_tracestate from the W3C context and appends its
\* headers_examined only when the primary context is not the W3C one and
\* there is a W3C context of the same trace; when the primary context is the
\* W3C one, or no W3C context of the same trace exists, the result is the
\* primary context in every field, headers_examined too.
C30_MergeTracestate ==
  merge_result # nullopt =>
    LET contexts == merging[1].contexts
        primary == contexts[merging[1].first_style]
        w3c == contexts["W3C"]
        result == merge_result[1]
    IN IF /\ merging[1].first_style # "W3C"
          /\ "W3C" \in DOMAIN contexts
          /\ w3c.trace_id = primary.trace_id
       THEN /\ result.additional_w3c_tracestate = w3c.additional_w3c_tracestate
            /\ result.additional_datadog_w3c_tracestate
                 = w3c.additional_datadog_w3c_tracestate
            /\ result.headers_examined
                 = primary.headers_examined \o w3c.headers_examined
       ELSE result = primary

\* C33: all the spans of the segment have the trace id of the local root;
\* the span a create_child call appends has as parent id the span id of the
\* span the call was made on; and a handle exists only for a span that is
\* registered: the child is in the span vector before its handle is returned.
C33_ChildOfCreator ==
  /\ [](/\ \A i \in 1..Len(spans_) : spans_[i].trace_id = spans_[1].trace_id
        /\ sent = <<>> => \A s \in 1..MaxSpans :
                             handle[s] # NoThread => s \in 1..Len(spans_))
  /\ [][Len(spans_') > Len(spans_) =>
          /\ spans_'[Len(spans_')].trace_id = 5
          /\ spans_'[Len(spans_')].parent_id = spans_[self[mutex_]].span_id
          /\ spans_'[Len(spans_')].span_id \notin
               {spans_[i].span_id : i \in 1..Len(spans_)}
          /\ handle[Len(spans_')] = NoThread]_vars

\* The child of a child of the root: three spans of one trace, the third
\* one's parent is the second one, whose parent is the root.
C33_Witness ==
  /\ Len(spans_) = 3
  /\ spans_[2].parent_id = spans_[1].span_id
  /\ spans_[3].parent_id = spans_[2].span_id
  /\ spans_[3].trace_id = spans_[1].trace_id
  /\ handle[3] # NoThread

\* The calls TraceSegment::span_finished has received.
span_finished_calls ==
  num_finished_spans_ + Cardinality({t \in Threads : pc[t] = "span_finished"})

\* The spans register_span or the constructor put into the segment.
registered_spans == IF sent = <<>> THEN Len(spans_) ELSE Len(sent[1].spans)

\* C32: the destructor of a Span that was not moved from calls span_finished
\* once, the destructor of a moved-from Span and a move call it not at all;
\* so the number of span_finished calls never exceeds the number of
\* registered spans, and equals it once every Span object is destroyed.
C32_FinishedOncePerSpan ==
  /\ [](/\ span_finished_calls <= registered_spans
        /\ ((\A s \in 1..MaxSpans : handle[s] = NoThread /\ moved_from[s] = 0)
              => span_finished_calls = registered_spans))
  /\ [][/\ \A s \in 1..MaxSpans :
             (handle[s] # NoThread /\ handle'[s] = NoThread)
               => span_finished_calls' = span_finished_calls + 1
        /\ moved_from' # moved_from
             => span_finished_calls' = span_finished_calls]_vars

\* The root's Span was moved twice; the two moved-from objects are still
\* there when the segment, having counted the root and a child that were
\* destroyed, has sent its two spans.
C32_Witness ==
  /\ \A s \in 1..MaxSpans : handle[s] = NoThread
  /\ moved_from[1] = 2
  /\ \A t \in Threads : pc[t] = "idle"
  /\ sent # <<>>
  /\ Len(sent[1].spans) = 2
  /\ num_finished_spans_ = 2

\* C37: if no override_sampling_priority took effect after the snapshot of an
\* inject call, the priority that call copied for its headers is the value
\* of "_sampling_priority_v1" on the root span handed to the collector: the
\* decision inject made is the one finalization uses.
C37_InjectedPriorityIsFinal ==
  (sent # <<>> /\ last_injected # nullopt) =>
    /\ "_sampling_priority_v1" \in DOMAIN sent[1].spans[1].numeric_tags
    /\ sent[1].spans[1].numeric_tags["_sampling_priority_v1"] = last_injected[1]

\* A segment constructed without a decision: an inject call asked the
\* sampler, no override followed, and the segment was sent after the one
\* call of the sampler.
C37_Witness ==
  /\ cfg.sampling_decision = nullopt
  /\ sent # <<>>
  /\ last_injected # nullopt
  /\ last_override = nullopt
  /\ decide_calls = 1
  /\ sent[1].spans[1].numeric_tags["_sampling_priority_v1"] = last_injected[1]

\* span_finished has left its locked block on the way to Collector::send, or
\* the segment was sent.
FinalizationBegun ==
  \/ sent # <<>>
  \/ \E t \in Threads :
       pc[t] \in {"finalize_decision", "finalize_spans", "send", "log_send_error"}

\* C38: once finalization has begun no Span handle is live and no thread is
\* inside register_span, inject, override_sampling_priority or any other
\* operation of the segment but the finalizing one; the assertions of
\* register_span and span_finished held at every call; and after the span
\* vector was moved into Collector::send nothing reads or writes it.
C38_InertOnceFinalizing ==
  /\ [](/\ ~assert_failed
        /\ FinalizationBegun =>
             /\ \A s \in 1..MaxSpans : handle[s] = NoThread
             /\ Cardinality({t \in Threads : pc[t] # "idle"}) <= 1
             /\ \A t \in Threads :
                  pc[t] \in {"idle", "finalize_decision", "finalize_spans", "send",
                             "log_send_error"})
  /\ [][sent # <<>> =>
          /\ spans_' = spans_
          /\ \A t \in Threads : pc'[t] = "idle"]_vars

\* The last of three spans was destroyed after two inject or override calls,
\* and its thread is about to hand the three spans to the collector.
C38_Witness ==
  /\ \E t \in Threads : pc[t] = "send"
  /\ Len(spans_) = 3
  /\ num_finished_spans_ = 3
  /\ ops = MaxOps
  /\ last_injected # nullopt
  /\ ~assert_failed

\* C39: under fair scheduling, once every Span handle is destroyed the spans
\* are handed to Collector::send; and the handles do get destroyed and the
\* spans sent, no thread waiting for the mutex forever, unless the process
\* died with a handle live.
C39_EventuallySent ==
  /\ (\A s \in 1..MaxSpans : handle[s] = NoThread) ~> (sent # <<>>)
  /\ <>(sent # <<>> \/ crashed)

\* Three spans, two inject or override calls, the mutex taken by both
\* threads in turn; then the segment is sent.
C39_Witness ==
  /\ sent # <<>>
  /\ Len(sent[1].spans) = 3
  /\ ops = MaxOps
  /\ \E s \in 1..3 : sent[1].spans[s].tags # sent[1].spans[1].tags
  /\ \A t \in Threads : pc[t] = "idle"

\* The value of the latest set_tag of `name` among the operations called,
\* if no remove_tag of the name came after it.
RECURSIVE LatestSetTag(_, _)
LatestSetTag(called, name) ==
  IF called = <<>> THEN nullopt
  ELSE LET last == called[Len(called)]
       IN IF last.op = "set_tag" /\ last.name = name THEN Some(last.value)
          ELSE IF last.op = "remove_tag" /\ last.name = name THEN nullopt
               ELSE LatestSetTag(SubSeq(called, 1, Len(called) - 1), name)

\* C31: after any sequence of tag and error operations, a set_tag or
\* remove_tag of a reserved name ("_dd." prefix, error.message, error.type,
\* error.stack) leaves the tags as they were, lookup_tag of a reserved name
\* returns nothing, and lookup_tag of any other name returns the value of the
\* latest set_tag of the name unless a remove_tag of it followed.
C31_ReservedNames ==
  /\ [](/\ \A name \in {"_dd.p.dm", "error.message", "error.stack"} :
             lookup_tag(data_, name) = nullopt
        /\ \A name \in {"team", "_dd"} :
             lookup_tag(data_, name) = LatestSetTag(tag_ops, name)
        /\ (tag_ops # <<>> /\ tag_ops[Len(tag_ops)].op = "lookup_tag") =>
             /\ found # nullopt
             /\ found[1].name = tag_ops[Len(tag_ops)].name
             /\ found[1].value = IF found[1].name \in {"team", "_dd"}
                                 THEN LatestSetTag(tag_ops, found[1].name)
                                 ELSE nullopt)
  /\ [][(/\ Len(tag_ops') > Len(tag_ops)
         /\ tag_ops'[Len(tag_ops')].op \in {"set_tag", "remove_tag"}
         /\ tag_ops'[Len(tag_ops')].name \notin {"team", "_dd"})
          => data_'.tags = data_.tags]_vars

\* error.stack was set by set_error_stack; then set_tag("error.stack", "a")
\* changed nothing, and lookup_tag("error.stack") returned nothing.
C31_Witness ==
  /\ Len(tag_ops) = 3
  /\ tag_ops[1] = [op |-> "set_error_text", name |-> "error.stack", value |-> "e"]
  /\ tag_ops[2] = [op |-> "set_tag", name |-> "error.stack", value |-> "a"]
  /\ tag_ops[3] = [op |-> "lookup_tag", name |-> "error.stack"]
  /\ data_.tags["error.stack"] = "e"
  /\ found = Some([name |-> "error.stack", value |-> nullopt])

\* C40: when the operation called last is set_error(false), whatever error
\* operations came before it, the error flag is false and the tags hold
\* none of error.message, error.type and error.stack.
C40_SetErrorFalseResets ==
  (tag_ops # <<>> /\ tag_ops[Len(tag_ops)] = [op |-> "set_error", is_error |-> FALSE]) =>
    /\ ~data_.error
    /\ DOMAIN data_.tags \cap {"error.message", "error.type", "error.stack"} = {}

\* C34: for a header put together from elements, Baggage::extract returns
\* the map that has, for each element with a '=' and a key that is not
\* empty, the key without the spaces around it and the text after the first
\* '=' without the spaces around it; elements without '=' or with an empty
\* key add nothing, a later element with the same key replaces an earlier
\* one, and the empty header gives the empty map.
C34_BaggageExtract ==
  (baggage # nullopt /\ given.what = "baggage") =>
    LET elements == given.elements
        kept == {i \in 1..Len(elements) :
                   "parts" \in DOMAIN elements[i] /\ elements[i].parts[2] # ""}
        keys == {elements[i].parts[2] : i \in kept}
        latest(key) == CHOOSE i \in kept :
                         /\ elements[i].parts[2] = key
                         /\ \A j \in kept : elements[j].parts[2] = key => j <= i
    IN /\ baggage[1].error = nullopt
       /\ baggage[1].value # nullopt
       /\ DOMAIN baggage[1].value[1] = keys
       /\ \A key \in keys :
            baggage[1].value[1][key] = elements[latest(key)].parts[5]

\* "  k = w  ,k f= v;a=b,k=v": the later k replaces the earlier one, the key
\* "k f" keeps its space and its value the text after the first '='.
C34_Witness ==
  /\ baggage # nullopt
  /\ given.what = "baggage"
  /\ request["baggage"] = "  k = w  ,k f= v;a=b,k=v"
  /\ baggage[1].value = Some(MapSet(MapSet(EmptyMap, "k", "v"), "k f", "v;a=b"))

C36_ParseOutcome ==
  url # nullopt =>
    LET pieces == given.pieces
        seps == {i \in 1..Len(pieces) : pieces[i] = "://"}
        first == CHOOSE i \in seps : \A j \in seps : i <= j
        scheme == Join(SubSeq(pieces, 1, first - 1), "")
        remainder == Join(SubSeq(pieces, first + 1, Len(pieces)), "")
        unix == scheme \in {"unix", "http+unix", "https+unix"}
        known == scheme \in {"http", "https", "unix", "http+unix", "https+unix"}
        relative == remainder = "" \/ Char(remainder, 1) # "/"
        parsed == url[1].url[1]
    IN /\ (url[1].error = nullopt) # (url[1].url = nullopt)
       /\ url[1].error = Some("URL_MISSING_SEPARATOR") <=> seps = {}
       /\ url[1].error = Some("URL_UNSUPPORTED_SCHEME") <=> (seps # {} /\ ~known)
       /\ url[1].error = Some("URL_UNIX_DOMAIN_SOCKET_PATH_NOT_ABSOLUTE") <=>
            (seps # {} /\ unix /\ relative)
       /\ url[1].url # nullopt =>
            /\ parsed.scheme = scheme
            /\ parsed.scheme \o "://" \o parsed.authority \o parsed.path = given.input
            /\ unix => parsed.authority = remainder /\ parsed.path = ""
            /\ ~unix =>
                 /\ \A i \in 1..Len(parsed.authority) : Char(parsed.authority, i) # "/"
                 /\ parsed.path = "" \/ Char(parsed.path, 1) = "/"

\* "http://h:8/run/s" is the authority "h:8" and the path "/run/s".
C36_Witness ==
  /\ url # nullopt
  /\ given.input = "http://h:8/run/s"
  /\ url[1].url = Some([scheme |-> "http", authority |-> "h:8", path |-> "/run/s"])
====
